---- MODULE Spec2Model ----
(***************************************************************************)
(* Verification model of the vboot EC software sync (2ec_sync.c) and of    *)
(* the helpers of 2common.c it relies on.                                  *)
(*                                                                         *)
(* One boot of the AP runs vb2api_ec_sync() one or more times against an   *)
(* embedded controller whose replies are not under the AP's control.  The  *)
(* function is split into one action per step of sync_ec()/phase 1, each   *)
(* step drawing the EC's replies from the set of replies the platform API  *)
(* allows.                                                                 *)
(***************************************************************************)
EXTENDS Integers, Sequences, FiniteSets, TLC

(***************************************************************************)
(* Bounds of the model.                                                    *)
(***************************************************************************)
MaxBoots == 2
MaxCalls == 2
HashLen == 2

(***************************************************************************)
(* Program constants.                                                      *)
(***************************************************************************)
RO_RETRIES == 2

VB2_SUCCESS == "VB2_SUCCESS"
VBERROR_REBOOT_REQUIRED == "VBERROR_REBOOT_REQUIRED"
VBERROR_EC_REBOOT_TO_RO_REQUIRED == "VBERROR_EC_REBOOT_TO_RO_REQUIRED"
VBERROR_EC_REBOOT_TO_SWITCH_RW == "VBERROR_EC_REBOOT_TO_SWITCH_RW"
VB2_ERROR_EC_HASH_IMAGE == "VB2_ERROR_EC_HASH_IMAGE"
VB2_ERROR_EC_HASH_EXPECTED == "VB2_ERROR_EC_HASH_EXPECTED"
VB2_ERROR_EC_HASH_SIZE == "VB2_ERROR_EC_HASH_SIZE"
VB2_ERROR_UNKNOWN == "VB2_ERROR_UNKNOWN"

VB2_RECOVERY_NOT_REQUESTED == "VB2_RECOVERY_NOT_REQUESTED"
VB2_RECOVERY_EC_SOFTWARE_SYNC == "VB2_RECOVERY_EC_SOFTWARE_SYNC"
VB2_RECOVERY_EC_UNKNOWN_IMAGE == "VB2_RECOVERY_EC_UNKNOWN_IMAGE"
VB2_RECOVERY_EC_UPDATE == "VB2_RECOVERY_EC_UPDATE"
VB2_RECOVERY_EC_JUMP_RW == "VB2_RECOVERY_EC_JUMP_RW"
VB2_RECOVERY_EC_PROTECT == "VB2_RECOVERY_EC_PROTECT"
VB2_RECOVERY_EC_EXPECTED_HASH == "VB2_RECOVERY_EC_EXPECTED_HASH"
VB2_RECOVERY_EC_HASH_FAILED == "VB2_RECOVERY_EC_HASH_FAILED"
VB2_RECOVERY_EC_HASH_SIZE == "VB2_RECOVERY_EC_HASH_SIZE"
VB2_RECOVERY_LEGACY == "VB2_RECOVERY_LEGACY"

VB_SELECT_FIRMWARE_READONLY == "VB_SELECT_FIRMWARE_READONLY"
VB_SELECT_FIRMWARE_EC_ACTIVE == "VB_SELECT_FIRMWARE_EC_ACTIVE"
VB_SELECT_FIRMWARE_EC_UPDATE == "VB_SELECT_FIRMWARE_EC_UPDATE"

VB2_CONTEXT_RECOVERY_MODE == "VB2_CONTEXT_RECOVERY_MODE"
VB2_CONTEXT_EC_SYNC_SUPPORTED == "VB2_CONTEXT_EC_SYNC_SUPPORTED"
VB2_CONTEXT_EC_SYNC_SLOW == "VB2_CONTEXT_EC_SYNC_SLOW"
VB2_CONTEXT_EC_EFS == "VB2_CONTEXT_EC_EFS"

VB2_GBB_FLAG_DISABLE_EC_SOFTWARE_SYNC == "VB2_GBB_FLAG_DISABLE_EC_SOFTWARE_SYNC"

VB2_SD_FLAG_ECSYNC_EC_RO == "VB2_SD_FLAG_ECSYNC_EC_RO"
VB2_SD_FLAG_ECSYNC_EC_RW == "VB2_SD_FLAG_ECSYNC_EC_RW"
VB2_SD_FLAG_ECSYNC_EC_IN_RW == "VB2_SD_FLAG_ECSYNC_EC_IN_RW"
VB2_SD_FLAG_DISPLAY_AVAILABLE == "VB2_SD_FLAG_DISPLAY_AVAILABLE"
VB2_SD_STATUS_EC_SYNC_COMPLETE == "VB2_SD_STATUS_EC_SYNC_COMPLETE"

VB_SCREEN_WAIT == "VB_SCREEN_WAIT"

(***************************************************************************)
(* Bytes and the bit operations of C on them.                              *)
(***************************************************************************)
RECURSIVE BitOp(_, _, _, _)
BitOp(op, a, b, bits) ==
    IF bits = 0 THEN 0
    ELSE LET x == a % 2
             y == b % 2
             z == IF op = "xor" THEN (x + y) % 2
                  ELSE IF op = "or" THEN (IF x + y > 0 THEN 1 ELSE 0)
                  ELSE x * y
         IN  z + 2 * BitOp(op, a \div 2, b \div 2, bits - 1)

(***************************************************************************)
(* vb2_safe_memcmp: the loop runs over all of the size bytes, OR-ing the   *)
(* XOR of each pair into result; the value returned is (result != 0).      *)
(***************************************************************************)
\* result |= *us1++ ^ *us2++
safe_memcmp_accumulate_last(result, b1, b2) == BitOp("xor", b1, b2, 8)

safe_memcmp_accumulate(result, b1, b2) ==
    BitOp("or", result, BitOp("xor", b1, b2, 8), 8)

\* while (size--)
safe_memcmp_continue_until_differ(size, result) == size # 0 /\ result = 0

safe_memcmp_continue(size, result) == size # 0

RECURSIVE safe_memcmp_loop(_, _, _, _, _)
safe_memcmp_loop(us1, us2, i, size, result) ==
    IF ~safe_memcmp_continue(size, result) THEN result
    ELSE safe_memcmp_loop(us1, us2, i + 1, size - 1,
                          safe_memcmp_accumulate(result, us1[i], us2[i]))

vb2_safe_memcmp(s1, s2, size) ==
    IF 0 = size THEN 0
    ELSE IF safe_memcmp_loop(s1, s2, 1, size, 0) # 0 THEN 1 ELSE 0

(***************************************************************************)
(* State.                                                                  *)
(*   ctx_flags  vb2_context.flags (device properties and recovery mode)    *)
(*   gbb_flags  vb2_gbb_header.flags                                       *)
(*   sd         vb2_shared_data: flags, status, recovery_reason            *)
(*   nv         the NV record fields EC sync reads and writes              *)
(*   ec         the embedded controller: running image, flashed images     *)
(*   pc         position inside vb2api_ec_sync ("idle" before a call,      *)
(*              "done" after it returned)                                  *)
(*   rv         value returned by the invocation that is "done"            *)
(*   phase1_rv, need_wait_screen, num_tries, recovery_request: locals      *)
(*   log        platform calls made by the current invocation, in order    *)
(*   entry      nv and sd as they were when the invocation was entered     *)
(*   boots, calls: boot counter, invocations made in this boot             *)
(*   inside     a call of vb2_verify_member_inside: arguments and result   *)
(*   cmp        a call of vb2_safe_memcmp: arguments, locals, position     *)
(*   al         a call of vb2_align: arguments, *ptr and *size, result     *)
(*   wb         a struct vb2_workbuf and the last operations made on it    *)
(*   vd         a call of vb2_verify_data or vb2_verify_digest             *)
(*   gscvd      a call of verify_ranges of the gscvd command               *)
(*   ui         the manual recovery menu: screen, disk, position           *)
(***************************************************************************)
VARIABLES ctx_flags, gbb_flags, sd, nv, ec, pc, rv, phase1_rv,
          need_wait_screen, num_tries, recovery_request, log, entry,
          boots, calls, inside, cmp, al, wb, vd, gscvd, ui

ec_vars == <<ctx_flags, gbb_flags, sd, nv, ec, pc, rv, phase1_rv,
             need_wait_screen, num_tries, recovery_request, log, entry,
             boots, calls>>

\* The calls of the 2common.c functions, which EC sync leaves alone.
lib_vars == <<inside, cmp, al, wb, vd, gscvd, ui>>

vars == <<ec_vars, lib_vars>>

NotCalled == [pc |-> "none"]

\* What each of the library specifications leaves alone.
other_than_inside == <<ec_vars, cmp, al, wb, vd, gscvd, ui>>
other_than_cmp == <<ec_vars, inside, al, wb, vd, gscvd, ui>>
other_than_al == <<ec_vars, inside, cmp, wb, vd, gscvd, ui>>
other_than_wb == <<ec_vars, inside, cmp, al, vd, gscvd, ui>>
other_than_vd == <<ec_vars, inside, cmp, al, wb, gscvd, ui>>
other_than_gscvd == <<ec_vars, inside, cmp, al, wb, vd, ui>>
other_than_ui == <<ec_vars, inside, cmp, al, wb, vd, gscvd>>

(***************************************************************************)
(* The EC images.  An image is identified with its hash; ExpectedHash is   *)
(* the hash the AP firmware carries, StaleHash differs in the last byte.   *)
(***************************************************************************)
ExpectedHash == [i \in 1..HashLen |-> 1]
StaleHash == [i \in 1..HashLen |-> IF i = HashLen THEN 0 ELSE 1]
Images == {ExpectedHash, StaleHash}

PlatformErrors == {VBERROR_EC_REBOOT_TO_RO_REQUIRED, VB2_ERROR_UNKNOWN}
PlatformRv == {VB2_SUCCESS} \cup PlatformErrors
HashKinds == {"ok", "short"} \cup PlatformErrors
UpdateKinds == {"written", "garbled"} \cup PlatformErrors

ImageOf(e, select) ==
    IF select = VB_SELECT_FIRMWARE_READONLY THEN e.ro
    ELSE IF select = VB_SELECT_FIRMWARE_EC_ACTIVE THEN e.rw[e.active]
    ELSE e.rw[1 - e.active]

WriteImage(e, select, img) ==
    IF select = VB_SELECT_FIRMWARE_READONLY THEN [e EXCEPT !.ro = img]
    ELSE IF select = VB_SELECT_FIRMWARE_EC_ACTIVE
         THEN [e EXCEPT !.rw[e.active] = img]
    ELSE [e EXCEPT !.rw[1 - e.active] = img]

NoHash == << >>

LogEntry(call, select, r, in_rw, hash) ==
    [call |-> call, select |-> select, rv |-> r, in_rw |-> in_rw, hash |-> hash]

(***************************************************************************)
(* Platform API, the vb2ex_ec functions: the reply of the EC to each call.  *)
(***************************************************************************)
vb2ex_ec_running_rw(e, r) ==
    [rv |-> r, in_rw |-> IF r = VB2_SUCCESS THEN e.in_rw ELSE FALSE]

vb2ex_ec_hash_image(e, select, kind) ==
    IF kind = "ok" THEN [rv |-> VB2_SUCCESS, hash |-> ImageOf(e, select)]
    ELSE IF kind = "short"
         THEN [rv |-> VB2_SUCCESS, hash |-> SubSeq(ImageOf(e, select), 1, HashLen - 1)]
    ELSE [rv |-> kind, hash |-> NoHash]

vb2ex_ec_get_expected_image_hash(select, r) ==
    [rv |-> r, hash |-> IF r = VB2_SUCCESS THEN ExpectedHash ELSE NoHash]

vb2ex_ec_update_image(e, select, kind) ==
    IF kind = "written" THEN [rv |-> VB2_SUCCESS, ec |-> WriteImage(e, select, ExpectedHash)]
    ELSE IF kind = "garbled" THEN [rv |-> VB2_SUCCESS, ec |-> WriteImage(e, select, StaleHash)]
    ELSE [rv |-> kind, ec |-> e]

vb2ex_ec_jump_to_rw(e, r) ==
    IF r = VB2_SUCCESS THEN [rv |-> r, ec |-> [e EXCEPT !.in_rw = TRUE]]
    ELSE [rv |-> r, ec |-> e]

vb2ex_ec_protect(e, select, r) == [rv |-> r, ec |-> e]

vb2ex_ec_disable_jump(e, r) == [rv |-> r, ec |-> e]

(***************************************************************************)
(* NV record accessors.                                                    *)
(***************************************************************************)
vb2_nv_get(n, field) == n[field]

vb2_nv_set(n, field, value) == [n EXCEPT ![field] = value]

(***************************************************************************)
(* Helpers of 2ec_sync.c.  A bundle c is [sd, nv, ec, log, rv].            *)
(***************************************************************************)
SYNC_FLAG(select) ==
    IF select = VB_SELECT_FIRMWARE_READONLY
    THEN VB2_SD_FLAG_ECSYNC_EC_RO ELSE VB2_SD_FLAG_ECSYNC_EC_RW

Logged(c, e) == [c EXCEPT !.log = Append(c.log, e)]

request_recovery(c, reason) ==
    [c EXCEPT !.nv = vb2_nv_set(c.nv, "recovery_request", reason)]

check_reboot_for_display(c) ==
    IF VB2_SD_FLAG_DISPLAY_AVAILABLE \notin c.sd.flags
    THEN [[c EXCEPT !.nv = vb2_nv_set(c.nv, "display_request", 1)] EXCEPT !.rv = 1]
    ELSE [c EXCEPT !.rv = 0]

display_wait_screen(c) ==
    Logged(c, LogEntry("VbDisplayScreen", VB_SCREEN_WAIT, VB2_SUCCESS, FALSE, NoHash))

protect_ec_no_recovery(c, select, r) ==
    LET reply == vb2ex_ec_protect(c.ec, select, r)
        c1 == Logged([c EXCEPT !.ec = reply.ec],
                     LogEntry("vb2ex_ec_protect", select, reply.rv, FALSE, NoHash))
    IN  [c1 EXCEPT !.rv = reply.rv]

protect_ec(c, select, r) ==
    LET reply == vb2ex_ec_protect(c.ec, select, r)
        c1 == Logged([c EXCEPT !.ec = reply.ec],
                     LogEntry("vb2ex_ec_protect", select, reply.rv, FALSE, NoHash))
    IN  IF reply.rv = VBERROR_EC_REBOOT_TO_RO_REQUIRED
        THEN [c1 EXCEPT !.rv = reply.rv]
        ELSE IF reply.rv # VB2_SUCCESS
        THEN [request_recovery(c1, VB2_RECOVERY_EC_PROTECT) EXCEPT !.rv = reply.rv]
        ELSE [c1 EXCEPT !.rv = reply.rv]

check_ec_hash(c, select, kind, exp_rv) ==
    LET live == vb2ex_ec_hash_image(c.ec, select, kind)
        c1 == Logged(c, LogEntry("vb2ex_ec_hash_image", select, live.rv, FALSE, live.hash))
        exp == vb2ex_ec_get_expected_image_hash(select, exp_rv)
        c2 == Logged(c1, LogEntry("vb2ex_ec_get_expected_image_hash", select,
                                  exp.rv, FALSE, exp.hash))
    IN  IF live.rv # VB2_SUCCESS
        THEN [request_recovery(c1, VB2_RECOVERY_EC_HASH_FAILED)
                EXCEPT !.rv = VB2_ERROR_EC_HASH_IMAGE]
        ELSE IF exp.rv # VB2_SUCCESS
        THEN [request_recovery(c2, VB2_RECOVERY_EC_EXPECTED_HASH)
                EXCEPT !.rv = VB2_ERROR_EC_HASH_EXPECTED]
        ELSE IF Len(live.hash) # Len(exp.hash)
        THEN [request_recovery(c2, VB2_RECOVERY_EC_HASH_SIZE)
                EXCEPT !.rv = VB2_ERROR_EC_HASH_SIZE]
        ELSE IF vb2_safe_memcmp(live.hash, exp.hash, Len(exp.hash)) # 0
        THEN [c2 EXCEPT !.sd.flags = @ \cup {SYNC_FLAG(select)}, !.rv = VB2_SUCCESS]
        ELSE [c2 EXCEPT !.rv = VB2_SUCCESS]

\* update_ec, the write failed: recovery unless the EC asked for a reboot.
update_ec_write_failed_always_recovery(c, write_rv) ==
    request_recovery(c, VB2_RECOVERY_EC_UPDATE)

update_ec_write_failed(c, write_rv) ==
    IF write_rv # VBERROR_EC_REBOOT_TO_RO_REQUIRED
    THEN request_recovery(c, VB2_RECOVERY_EC_UPDATE)
    ELSE c

\* update_ec, the write succeeded: the image is taken to be up to date until
\* the hash check that follows says otherwise.
update_ec_clear_flag_missing(s, select) == s

update_ec_clear_flag(s, select) == [s EXCEPT !.flags = @ \ {SYNC_FLAG(select)}]

update_ec(c, select, ukind, hkind, exp_rv) ==
    LET reply == vb2ex_ec_update_image(c.ec, select, ukind)
        c1 == Logged([c EXCEPT !.ec = reply.ec],
                     LogEntry("vb2ex_ec_update_image", select, reply.rv, FALSE, NoHash))
        c2 == [c1 EXCEPT !.sd = update_ec_clear_flag(c1.sd, select)]
        c3 == check_ec_hash(c2, select, hkind, exp_rv)
    IN  IF reply.rv # VB2_SUCCESS
        THEN [update_ec_write_failed(c1, reply.rv) EXCEPT !.rv = reply.rv]
        ELSE IF c3.rv # VB2_SUCCESS
        THEN [c3 EXCEPT !.rv = VBERROR_EC_REBOOT_TO_RO_REQUIRED]
        ELSE IF SYNC_FLAG(select) \in c3.sd.flags
        THEN [request_recovery(c3, VB2_RECOVERY_EC_UPDATE)
                EXCEPT !.rv = VBERROR_EC_REBOOT_TO_RO_REQUIRED]
        ELSE [c3 EXCEPT !.rv = VB2_SUCCESS]

check_ec_active_no_recovery(c, r) ==
    LET reply == vb2ex_ec_running_rw(c.ec, r)
        c1 == Logged(c, LogEntry("vb2ex_ec_running_rw", "-", reply.rv, reply.in_rw, NoHash))
    IN  IF reply.rv # VB2_SUCCESS
        THEN [c1 EXCEPT !.rv = VBERROR_EC_REBOOT_TO_RO_REQUIRED]
        ELSE IF reply.in_rw
        THEN [c1 EXCEPT !.sd.flags = @ \cup {VB2_SD_FLAG_ECSYNC_EC_IN_RW},
                        !.rv = VB2_SUCCESS]
        ELSE [c1 EXCEPT !.rv = VB2_SUCCESS]

check_ec_active(c, r) ==
    LET reply == vb2ex_ec_running_rw(c.ec, r)
        c1 == Logged(c, LogEntry("vb2ex_ec_running_rw", "-", reply.rv, reply.in_rw, NoHash))
    IN  IF reply.rv # VB2_SUCCESS
        THEN [request_recovery(c1, VB2_RECOVERY_EC_UNKNOWN_IMAGE)
                EXCEPT !.rv = VBERROR_EC_REBOOT_TO_RO_REQUIRED]
        ELSE IF reply.in_rw
        THEN [c1 EXCEPT !.sd.flags = @ \cup {VB2_SD_FLAG_ECSYNC_EC_IN_RW},
                        !.rv = VB2_SUCCESS]
        ELSE [c1 EXCEPT !.rv = VB2_SUCCESS]

select_rw_always_active == VB_SELECT_FIRMWARE_EC_ACTIVE

select_rw ==
    IF VB2_CONTEXT_EC_EFS \in ctx_flags
    THEN VB_SELECT_FIRMWARE_EC_UPDATE ELSE VB_SELECT_FIRMWARE_EC_ACTIVE

ec_will_update_slowly_ignoring_slow_flag(s) ==
    \/ VB2_SD_FLAG_ECSYNC_EC_RO \in s.flags
    \/ VB2_SD_FLAG_ECSYNC_EC_RW \in s.flags

ec_will_update_slowly(s) ==
    /\ \/ VB2_SD_FLAG_ECSYNC_EC_RO \in s.flags
       \/ VB2_SD_FLAG_ECSYNC_EC_RW \in s.flags
    /\ VB2_CONTEXT_EC_SYNC_SLOW \in ctx_flags

ec_sync_allowed_ignoring_gbb(s) ==
    IF VB2_CONTEXT_EC_SYNC_SUPPORTED \notin ctx_flags THEN FALSE
    ELSE IF s.recovery_reason # VB2_RECOVERY_NOT_REQUESTED THEN FALSE
    ELSE TRUE

ec_sync_allowed_ignoring_recovery(s) ==
    IF VB2_CONTEXT_EC_SYNC_SUPPORTED \notin ctx_flags THEN FALSE
    ELSE IF VB2_GBB_FLAG_DISABLE_EC_SOFTWARE_SYNC \in gbb_flags THEN FALSE
    ELSE TRUE

ec_sync_allowed(s) ==
    IF VB2_CONTEXT_EC_SYNC_SUPPORTED \notin ctx_flags THEN FALSE
    ELSE IF VB2_GBB_FLAG_DISABLE_EC_SOFTWARE_SYNC \in gbb_flags THEN FALSE
    ELSE IF s.recovery_reason # VB2_RECOVERY_NOT_REQUESTED THEN FALSE
    ELSE TRUE

Bundle == [sd |-> sd, nv |-> nv, ec |-> ec, log |-> log, rv |-> VB2_SUCCESS]

(***************************************************************************)
(* The order of the statements of ec_sync_phase1, vb2api_ec_sync and       *)
(* sync_ec: the step that follows each step when it does not return.       *)
(***************************************************************************)
next_step_protect_ro_first(step) ==
    CASE step = "ec_sync_phase1" -> "phase1_hash_rw"
      [] step = "phase1_hash_rw" -> "phase1_hash_ro"
      [] step = "phase1_hash_ro" -> "phase1_done"
      [] step = "phase1_done" -> "sync_ec_update_rw"
      [] step = "sync_ec_update_rw" -> "sync_ec_jump_rw"
      [] step = "sync_ec_jump_rw" -> "sync_ec_protect_ro"
      [] step = "sync_ec_protect_ro" -> "sync_ec_update_ro"
      [] step = "sync_ec_update_ro" -> "sync_ec_protect_rw"
      [] step = "sync_ec_update_ro_try" -> "sync_ec_protect_rw"
      [] step = "sync_ec_protect_rw" -> "sync_ec_disable_jump"
      [] step = "sync_ec_disable_jump" -> "vboot_done"

next_step(step) ==
    CASE step = "ec_sync_phase1" -> "phase1_hash_rw"
      [] step = "phase1_hash_rw" -> "phase1_hash_ro"
      [] step = "phase1_hash_ro" -> "phase1_done"
      [] step = "phase1_done" -> "sync_ec_update_rw"
      [] step = "sync_ec_update_rw" -> "sync_ec_jump_rw"
      [] step = "sync_ec_jump_rw" -> "sync_ec_update_ro"
      [] step = "sync_ec_update_ro" -> "sync_ec_protect_ro"
      [] step = "sync_ec_update_ro_try" -> "sync_ec_protect_ro"
      [] step = "sync_ec_protect_ro" -> "sync_ec_protect_rw"
      [] step = "sync_ec_protect_rw" -> "sync_ec_disable_jump"
      [] step = "sync_ec_disable_jump" -> "vboot_done"

Running == "-"

Commit(c) == /\ sd' = c.sd
             /\ nv' = c.nv
             /\ ec' = c.ec
             /\ log' = c.log

Return(value) == /\ pc' = "done"
                 /\ rv' = value

Goto(label) == /\ pc' = label
               /\ rv' = Running

DeviceFlags == {VB2_CONTEXT_EC_SYNC_SUPPORTED, VB2_CONTEXT_EC_SYNC_SLOW,
                VB2_CONTEXT_EC_EFS}

BootFlags == {VB2_CONTEXT_RECOVERY_MODE}

RwSlots(cf) == IF VB2_CONTEXT_EC_EFS \in cf THEN {0, 1} ELSE {0}

(***************************************************************************)
(* The state at the first call of a boot: the shared data has none of the  *)
(* EC sync bits, NV and the EC are whatever earlier boots left.            *)
(***************************************************************************)
Init ==
    /\ ctx_flags \in SUBSET (DeviceFlags \cup BootFlags)
    /\ gbb_flags \in SUBSET {VB2_GBB_FLAG_DISABLE_EC_SOFTWARE_SYNC}
    /\ sd \in [flags : SUBSET {VB2_SD_FLAG_DISPLAY_AVAILABLE},
               status : {{}},
               recovery_reason : {VB2_RECOVERY_NOT_REQUESTED, VB2_RECOVERY_LEGACY}]
    /\ nv \in [recovery_request : {VB2_RECOVERY_NOT_REQUESTED, VB2_RECOVERY_LEGACY},
               try_ro_sync : {0, 1},
               display_request : {0}]
    /\ ec \in [in_rw : BOOLEAN, ro : Images, rw : [RwSlots(ctx_flags) -> Images],
               active : {0}]
    /\ pc = "idle"
    /\ rv = Running
    /\ phase1_rv = VB2_SUCCESS
    /\ need_wait_screen = FALSE
    /\ num_tries = 0
    /\ recovery_request = VB2_RECOVERY_NOT_REQUESTED
    /\ log = << >>
    /\ entry = [nv |-> nv, sd |-> sd]
    /\ boots = 1
    /\ calls = 0
    /\ inside = NotCalled
    /\ cmp = NotCalled
    /\ al = NotCalled
    /\ wb = NotCalled
    /\ vd = NotCalled
    /\ gscvd = NotCalled
    /\ ui = NotCalled

(***************************************************************************)
(* vb2api_ec_sync, entry: the already-complete and recovery-mode checks.   *)
(* The value is what the function returns at once, or Running.             *)
(***************************************************************************)
ec_sync_entry_no_complete_check(s, cf) ==
    IF VB2_CONTEXT_RECOVERY_MODE \in cf THEN VB2_SUCCESS ELSE Running

ec_sync_entry_no_recovery_check(s, cf) ==
    IF VB2_SD_STATUS_EC_SYNC_COMPLETE \in s.flags THEN VB2_SUCCESS ELSE Running

ec_sync_entry(s, cf) ==
    IF VB2_SD_STATUS_EC_SYNC_COMPLETE \in s.flags THEN VB2_SUCCESS
    ELSE IF VB2_CONTEXT_RECOVERY_MODE \in cf THEN VB2_SUCCESS
    ELSE Running

vb2api_ec_sync ==
    /\ pc \in {"idle", "done"}
    /\ calls < MaxCalls
    /\ calls' = calls + 1
    /\ entry' = [nv |-> nv, sd |-> sd]
    /\ log' = << >>
    /\ phase1_rv' = VB2_SUCCESS
    /\ need_wait_screen' = FALSE
    /\ num_tries' = 0
    /\ recovery_request' = VB2_RECOVERY_NOT_REQUESTED
    /\ IF ec_sync_entry(sd, ctx_flags) # Running
       THEN Return(ec_sync_entry(sd, ctx_flags))
       ELSE Goto("ec_sync_phase1")
    /\ UNCHANGED <<ctx_flags, gbb_flags, sd, nv, ec, boots>>
    /\ UNCHANGED lib_vars

(***************************************************************************)
(* ec_sync_phase1, first part: reasons not to sync, then check_ec_active.  *)
(***************************************************************************)
ec_sync_phase1 ==
    /\ pc = "ec_sync_phase1"
    /\ IF VB2_CONTEXT_EC_SYNC_SUPPORTED \notin ctx_flags
       THEN /\ phase1_rv' = VB2_SUCCESS
            /\ Goto("phase1_done")
            /\ UNCHANGED <<sd, nv, ec, log>>
       ELSE IF VB2_GBB_FLAG_DISABLE_EC_SOFTWARE_SYNC \in gbb_flags
       THEN /\ phase1_rv' = VB2_SUCCESS
            /\ Goto("phase1_done")
            /\ UNCHANGED <<sd, nv, ec, log>>
       ELSE \E r \in PlatformRv :
              LET c == check_ec_active(Bundle, r)
              IN  /\ Commit(c)
                  /\ IF c.rv # VB2_SUCCESS
                     THEN /\ phase1_rv' = VBERROR_EC_REBOOT_TO_RO_REQUIRED
                          /\ Goto("phase1_done")
                     ELSE /\ phase1_rv' = phase1_rv
                          /\ Goto(next_step(pc))
    /\ UNCHANGED <<ctx_flags, gbb_flags, need_wait_screen, num_tries,
                   recovery_request, entry, boots, calls>>
    /\ UNCHANGED lib_vars

(***************************************************************************)
(* ec_sync_phase1: check whether RW needs an update.                       *)
(***************************************************************************)
ec_sync_phase1_hash_rw ==
    /\ pc = "phase1_hash_rw"
    /\ \E kind \in HashKinds, exp_rv \in PlatformRv :
         LET c == check_ec_hash(Bundle, VB_SELECT_FIRMWARE_EC_ACTIVE, kind, exp_rv)
         IN  /\ Commit(c)
             /\ IF c.rv # VB2_SUCCESS
                THEN /\ phase1_rv' = VBERROR_EC_REBOOT_TO_RO_REQUIRED
                     /\ Goto("phase1_done")
                ELSE /\ phase1_rv' = phase1_rv
                     /\ Goto(next_step(pc))
    /\ UNCHANGED <<ctx_flags, gbb_flags, need_wait_screen, num_tries,
                   recovery_request, entry, boots, calls>>
    /\ UNCHANGED lib_vars

(***************************************************************************)
(* ec_sync_phase1: the EC-RO check under TRY_RO_SYNC, then the test for    *)
(* an RW update needed while the EC runs RW.                               *)
(***************************************************************************)
phase1_try_ro_sync_always(n) == TRUE

phase1_try_ro_sync(n) == vb2_nv_get(n, "try_ro_sync") # 0

phase1_in_rw_check_never(s) == VB2_SUCCESS

phase1_in_rw_check(s) ==
    IF /\ VB2_SD_FLAG_ECSYNC_EC_RW \in s.flags
       /\ VB2_SD_FLAG_ECSYNC_EC_IN_RW \in s.flags
       /\ VB2_CONTEXT_EC_EFS \notin ctx_flags
    THEN VBERROR_EC_REBOOT_TO_RO_REQUIRED
    ELSE VB2_SUCCESS

ec_sync_phase1_hash_ro ==
    /\ pc = "phase1_hash_ro"
    /\ IF phase1_try_ro_sync(nv)
       THEN \E kind \in HashKinds, exp_rv \in PlatformRv :
              LET c == check_ec_hash(Bundle, VB_SELECT_FIRMWARE_READONLY, kind, exp_rv)
              IN  /\ Commit(c)
                  /\ phase1_rv' = IF c.rv # VB2_SUCCESS
                                  THEN VBERROR_EC_REBOOT_TO_RO_REQUIRED
                                  ELSE phase1_in_rw_check(c.sd)
       ELSE /\ phase1_rv' = phase1_in_rw_check(sd)
            /\ UNCHANGED <<sd, nv, ec, log>>
    /\ Goto(next_step(pc))
    /\ UNCHANGED <<ctx_flags, gbb_flags, need_wait_screen, num_tries,
                   recovery_request, entry, boots, calls>>
    /\ UNCHANGED lib_vars

(***************************************************************************)
(* vb2api_ec_sync after phase 1: the wait screen decision, the reboot for  *)
(* display, the phase 1 result, and ec_sync_phase2 up to ec_sync_allowed.  *)
(***************************************************************************)
\* What vb2api_ec_sync returns once phase 1 is over, or Running: the reboot
\* for the display is tested before the result of phase 1.
ec_sync_after_phase1_error_first(reboot_for_display, p1_rv) ==
    IF p1_rv # VB2_SUCCESS THEN p1_rv
    ELSE IF reboot_for_display THEN VBERROR_REBOOT_REQUIRED
    ELSE Running

ec_sync_after_phase1(reboot_for_display, p1_rv) ==
    IF reboot_for_display THEN VBERROR_REBOOT_REQUIRED
    ELSE IF p1_rv # VB2_SUCCESS THEN p1_rv
    ELSE Running

ec_sync_phase2 ==
    /\ pc = "phase1_done"
    /\ need_wait_screen' = ec_will_update_slowly(sd)
    /\ LET c0 == IF need_wait_screen' THEN check_reboot_for_display(Bundle)
                 ELSE [Bundle EXCEPT !.rv = 0]
           res == ec_sync_after_phase1(need_wait_screen' /\ c0.rv # 0, phase1_rv)
       IN  IF res # Running
           THEN /\ Commit(c0)
                /\ Return(res)
           ELSE LET c1 == IF need_wait_screen' THEN display_wait_screen(c0) ELSE c0
                IN  /\ Commit(c1)
                    /\ IF ~ec_sync_allowed(c1.sd)
                       THEN Goto("vboot_done")
                       ELSE Goto(next_step(pc))
    /\ UNCHANGED <<ctx_flags, gbb_flags, phase1_rv, num_tries,
                   recovery_request, entry, boots, calls>>
    /\ UNCHANGED lib_vars

(***************************************************************************)
(* sync_ec: update the RW image.  sync_ec_rw_updated is what sync_ec does  *)
(* with the result of update_ec: return a reboot value, or go on.          *)
(***************************************************************************)
sync_ec_rw_updated_no_switch(update_rv, is_rw_ab) ==
    IF VB2_SUCCESS # update_rv THEN VBERROR_EC_REBOOT_TO_RO_REQUIRED
    ELSE Running

sync_ec_rw_updated_ignoring_failure(update_rv, is_rw_ab) ==
    IF is_rw_ab THEN VBERROR_EC_REBOOT_TO_SWITCH_RW ELSE Running

sync_ec_rw_updated(update_rv, is_rw_ab) ==
    IF VB2_SUCCESS # update_rv THEN VBERROR_EC_REBOOT_TO_RO_REQUIRED
    ELSE IF is_rw_ab THEN VBERROR_EC_REBOOT_TO_SWITCH_RW
    ELSE Running

sync_ec_update_rw ==
    /\ pc = "sync_ec_update_rw"
    /\ IF SYNC_FLAG(select_rw) \in sd.flags
       THEN \E ukind \in UpdateKinds, hkind \in HashKinds, exp_rv \in PlatformRv :
              LET c == update_ec(Bundle, select_rw, ukind, hkind, exp_rv)
                  res == sync_ec_rw_updated(c.rv, VB2_CONTEXT_EC_EFS \in ctx_flags)
              IN  /\ Commit(c)
                  /\ IF res # Running THEN Return(res) ELSE Goto(next_step(pc))
       ELSE /\ Goto(next_step(pc))
            /\ UNCHANGED <<sd, nv, ec, log>>
    /\ UNCHANGED <<ctx_flags, gbb_flags, phase1_rv, need_wait_screen, num_tries,
                   recovery_request, entry, boots, calls>>
    /\ UNCHANGED lib_vars

(***************************************************************************)
(* sync_ec: tell the EC to jump to its RW image.                           *)
(***************************************************************************)
sync_ec_jump_failed_always_recovery(c, jump_rv) ==
    request_recovery(c, VB2_RECOVERY_EC_JUMP_RW)

sync_ec_jump_failed(c, jump_rv) ==
    IF jump_rv # VBERROR_EC_REBOOT_TO_RO_REQUIRED
    THEN request_recovery(c, VB2_RECOVERY_EC_JUMP_RW)
    ELSE c

sync_ec_jump_rw ==
    /\ pc = "sync_ec_jump_rw"
    /\ IF VB2_SD_FLAG_ECSYNC_EC_IN_RW \notin sd.flags
       THEN \E r \in PlatformRv :
              LET reply == vb2ex_ec_jump_to_rw(ec, r)
                  c1 == Logged([Bundle EXCEPT !.ec = reply.ec],
                               LogEntry("vb2ex_ec_jump_to_rw", "-", reply.rv, FALSE, NoHash))
              IN  IF reply.rv # VB2_SUCCESS
                  THEN /\ Commit(sync_ec_jump_failed(c1, reply.rv))
                       /\ Return(VBERROR_EC_REBOOT_TO_RO_REQUIRED)
                  ELSE /\ Commit(c1)
                       /\ Goto(next_step(pc))
       ELSE /\ Goto(next_step(pc))
            /\ UNCHANGED <<sd, nv, ec, log>>
    /\ UNCHANGED <<ctx_flags, gbb_flags, phase1_rv, need_wait_screen, num_tries,
                   recovery_request, entry, boots, calls>>
    /\ UNCHANGED lib_vars

(***************************************************************************)
(* sync_ec: EC-RO update, before the retry loop: reset TRY_RO_SYNC and     *)
(* remember the recovery request.                                          *)
(***************************************************************************)
\* Reset the RO sync request before the first attempt.
sync_ec_reset_try_ro_sync_missing(n) == n

sync_ec_reset_try_ro_sync(n) == vb2_nv_set(n, "try_ro_sync", 0)

sync_ec_update_ro ==
    /\ pc = "sync_ec_update_ro"
    /\ IF VB2_SD_FLAG_ECSYNC_EC_RO \in sd.flags
       THEN /\ nv' = sync_ec_reset_try_ro_sync(nv)
            /\ recovery_request' = vb2_nv_get(nv', "recovery_request")
            /\ num_tries' = 0
            /\ Goto("sync_ec_update_ro_try")
       ELSE /\ Goto(next_step(pc))
            /\ UNCHANGED <<nv, recovery_request, num_tries>>
    /\ UNCHANGED <<ctx_flags, gbb_flags, sd, ec, log, phase1_rv, need_wait_screen,
                   entry, boots, calls>>
    /\ UNCHANGED lib_vars

(***************************************************************************)
(* sync_ec: one iteration of the EC-RO retry loop and, when the loop       *)
(* ends, the test on num_tries that follows it.                            *)
(***************************************************************************)
\* The loop ends without a success when num_tries reaches RO_RETRIES.
ro_tries_exhausted_after_one(tries) == tries >= 1

ro_tries_exhausted(tries) == tries = RO_RETRIES

\* After a success that followed a failure the saved request is put back.
restore_recovery_request_never(c, tries, saved) == c

restore_recovery_request_clears(c, tries, saved) ==
    IF tries # 0 THEN request_recovery(c, VB2_RECOVERY_NOT_REQUESTED) ELSE c

restore_recovery_request(c, tries, saved) ==
    IF tries # 0 THEN request_recovery(c, saved) ELSE c

sync_ec_update_ro_try ==
    /\ pc = "sync_ec_update_ro_try"
    /\ num_tries < RO_RETRIES
    /\ \E ukind \in UpdateKinds, hkind \in HashKinds, exp_rv \in PlatformRv :
         LET c == update_ec(Bundle, VB_SELECT_FIRMWARE_READONLY, ukind, hkind, exp_rv)
         IN  IF VB2_SUCCESS = c.rv
             THEN /\ Commit(restore_recovery_request(c, num_tries, recovery_request))
                  /\ num_tries' = num_tries
                  /\ Goto(next_step(pc))
             ELSE /\ Commit(c)
                  /\ num_tries' = num_tries + 1
                  /\ IF ro_tries_exhausted(num_tries')
                     THEN Return(VBERROR_EC_REBOOT_TO_RO_REQUIRED)
                     ELSE Goto("sync_ec_update_ro_try")
    /\ UNCHANGED <<ctx_flags, gbb_flags, phase1_rv, need_wait_screen,
                   recovery_request, entry, boots, calls>>
    /\ UNCHANGED lib_vars

(***************************************************************************)
(* sync_ec: protect RO flash, then RW flash.                               *)
(***************************************************************************)
\* What sync_ec does with the result of protect_ec: return it, or go on.
sync_ec_protected_ignoring_failure(protect_rv) == Running

sync_ec_protected(protect_rv) ==
    IF protect_rv # VB2_SUCCESS THEN protect_rv ELSE Running

sync_ec_protect_ro ==
    /\ pc = "sync_ec_protect_ro"
    /\ \E r \in PlatformRv :
         LET c == protect_ec(Bundle, VB_SELECT_FIRMWARE_READONLY, r)
         IN  /\ Commit(c)
             /\ IF sync_ec_protected(c.rv) # Running
                THEN Return(sync_ec_protected(c.rv))
                ELSE Goto(next_step(pc))
    /\ UNCHANGED <<ctx_flags, gbb_flags, phase1_rv, need_wait_screen, num_tries,
                   recovery_request, entry, boots, calls>>
    /\ UNCHANGED lib_vars

sync_ec_protect_rw ==
    /\ pc = "sync_ec_protect_rw"
    /\ \E r \in PlatformRv :
         LET c == protect_ec(Bundle, select_rw, r)
         IN  /\ Commit(c)
             /\ IF sync_ec_protected(c.rv) # Running
                THEN Return(sync_ec_protected(c.rv))
                ELSE Goto(next_step(pc))
    /\ UNCHANGED <<ctx_flags, gbb_flags, phase1_rv, need_wait_screen, num_tries,
                   recovery_request, entry, boots, calls>>
    /\ UNCHANGED lib_vars

(***************************************************************************)
(* sync_ec: disable further sysjumps.                                      *)
(***************************************************************************)
sync_ec_disable_jump_failed_no_recovery(c) == c

sync_ec_disable_jump_failed(c) ==
    request_recovery(c, VB2_RECOVERY_EC_SOFTWARE_SYNC)

sync_ec_disable_jump ==
    /\ pc = "sync_ec_disable_jump"
    /\ \E r \in PlatformRv :
         LET reply == vb2ex_ec_disable_jump(ec, r)
             c1 == Logged([Bundle EXCEPT !.ec = reply.ec],
                          LogEntry("vb2ex_ec_disable_jump", "-", reply.rv, FALSE, NoHash))
         IN  IF reply.rv # VB2_SUCCESS
             THEN /\ Commit(sync_ec_disable_jump_failed(c1))
                  /\ Return(VBERROR_EC_REBOOT_TO_RO_REQUIRED)
             ELSE /\ Commit(c1)
                  /\ Goto(next_step(pc))
    /\ UNCHANGED <<ctx_flags, gbb_flags, phase1_rv, need_wait_screen, num_tries,
                   recovery_request, entry, boots, calls>>
    /\ UNCHANGED lib_vars

(***************************************************************************)
(* vb2api_ec_sync, phase 3: tell the platform that EC software sync is     *)
(* done and record completion.                                             *)
(***************************************************************************)
vb2ex_ec_vboot_done ==
    /\ pc = "vboot_done"
    /\ \E r \in PlatformRv :
         LET c1 == Logged(Bundle, LogEntry("vb2ex_ec_vboot_done", "-", r, FALSE, NoHash))
         IN  IF r # VB2_SUCCESS
             THEN /\ Commit(c1)
                  /\ Return(r)
             ELSE /\ Commit([c1 EXCEPT !.sd.flags = @ \cup {VB2_SD_STATUS_EC_SYNC_COMPLETE}])
                  /\ Return(VB2_SUCCESS)
    /\ UNCHANGED <<ctx_flags, gbb_flags, phase1_rv, need_wait_screen, num_tries,
                   recovery_request, entry, boots, calls>>
    /\ UNCHANGED lib_vars

(***************************************************************************)
(* A reboot ends the boot.  The shared data is rebuilt, NV survives, the   *)
(* EC is reset when the returned value asked for it and swaps its RW       *)
(* slots on a reboot-to-switch-RW.                                         *)
(***************************************************************************)
EcAfterReboot(e, value) ==
    IF value = VBERROR_EC_REBOOT_TO_RO_REQUIRED
    THEN {[e EXCEPT !.in_rw = FALSE]}
    ELSE IF value = VBERROR_EC_REBOOT_TO_SWITCH_RW
    THEN {[e EXCEPT !.in_rw = FALSE, !.active = 1 - e.active]}
    ELSE {e, [e EXCEPT !.in_rw = FALSE]}

Reboot ==
    /\ pc = "done"
    /\ boots < MaxBoots
    /\ boots' = boots + 1
    /\ calls' = 0
    /\ pc' = "idle"
    /\ rv' = Running
    /\ log' = << >>
    /\ phase1_rv' = VB2_SUCCESS
    /\ need_wait_screen' = FALSE
    /\ num_tries' = 0
    /\ recovery_request' = VB2_RECOVERY_NOT_REQUESTED
    /\ ctx_flags' \in {(ctx_flags \cap DeviceFlags) \cup b : b \in SUBSET BootFlags}
    /\ sd' \in [flags : IF vb2_nv_get(nv, "display_request") = 1
                        THEN {{VB2_SD_FLAG_DISPLAY_AVAILABLE}}
                        ELSE SUBSET {VB2_SD_FLAG_DISPLAY_AVAILABLE},
                status : {{}},
                recovery_reason : {VB2_RECOVERY_NOT_REQUESTED,
                                   vb2_nv_get(nv, "recovery_request")}]
    /\ nv' = vb2_nv_set(nv, "display_request", 0)
    /\ ec' \in EcAfterReboot(ec, rv)
    /\ entry' = [nv |-> nv', sd |-> sd']
    /\ UNCHANGED gbb_flags
    /\ UNCHANGED lib_vars

Next ==
    \/ vb2api_ec_sync
    \/ ec_sync_phase1
    \/ ec_sync_phase1_hash_rw
    \/ ec_sync_phase1_hash_ro
    \/ ec_sync_phase2
    \/ sync_ec_update_rw
    \/ sync_ec_jump_rw
    \/ sync_ec_update_ro
    \/ sync_ec_update_ro_try
    \/ sync_ec_protect_ro
    \/ sync_ec_protect_rw
    \/ sync_ec_disable_jump
    \/ vb2ex_ec_vboot_done
    \/ Reboot

Spec == Init /\ [][Next]_vars

TypeOK ==
    /\ pc \in {"idle", "done", "ec_sync_phase1", "phase1_hash_rw", "phase1_hash_ro",
               "phase1_done", "sync_ec_update_rw", "sync_ec_jump_rw",
               "sync_ec_update_ro", "sync_ec_update_ro_try", "sync_ec_protect_ro",
               "sync_ec_protect_rw", "sync_ec_disable_jump", "vboot_done"}
    /\ (pc = "done") = (rv # Running)
    /\ boots \in 1..MaxBoots
    /\ calls \in 0..MaxCalls

(***************************************************************************)
(* Reading the log of the current invocation.                              *)
(***************************************************************************)
HasCall(name) == \E i \in DOMAIN log : log[i].call = name

HasCallSel(name, select) ==
    \E i \in DOMAIN log : log[i].call = name /\ log[i].select = select

CallNames == [i \in DOMAIN log |-> <<log[i].call, log[i].select>>]

AllOk == \A i \in DOMAIN log : log[i].rv = VB2_SUCCESS

IsPrefix(a, b) == Len(a) <= Len(b) /\ a = SubSeq(b, 1, Len(a))

LastCall == log[Len(log)]

IsEfs == VB2_CONTEXT_EC_EFS \in ctx_flags

RwSelect == IF IsEfs THEN VB_SELECT_FIRMWARE_EC_UPDATE ELSE VB_SELECT_FIRMWARE_EC_ACTIVE

SyncEnabled ==
    /\ VB2_CONTEXT_EC_SYNC_SUPPORTED \in ctx_flags
    /\ VB2_GBB_FLAG_DISABLE_EC_SOFTWARE_SYNC \notin gbb_flags

NormalBoot ==
    /\ VB2_CONTEXT_RECOVERY_MODE \notin ctx_flags
    /\ VB2_SD_STATUS_EC_SYNC_COMPLETE \notin entry.sd.flags
    /\ entry.sd.recovery_reason = VB2_RECOVERY_NOT_REQUESTED

NeedsUpdateFlags == {VB2_SD_FLAG_ECSYNC_EC_RO, VB2_SD_FLAG_ECSYNC_EC_RW}

Phase1Names ==
    << <<"vb2ex_ec_running_rw", "-">>,
       <<"vb2ex_ec_hash_image", VB_SELECT_FIRMWARE_EC_ACTIVE>>,
       <<"vb2ex_ec_get_expected_image_hash", VB_SELECT_FIRMWARE_EC_ACTIVE>> >>
    \o (IF entry.nv.try_ro_sync # 0
        THEN << <<"vb2ex_ec_hash_image", VB_SELECT_FIRMWARE_READONLY>>,
                <<"vb2ex_ec_get_expected_image_hash", VB_SELECT_FIRMWARE_READONLY>> >>
        ELSE << >>)

\* Phase 1 made all of its queries and none failed or disagreed in size.
Phase1Passed ==
    /\ Len(log) >= Len(Phase1Names)
    /\ SubSeq(CallNames, 1, Len(Phase1Names)) = Phase1Names
    /\ \A i \in 1..Len(Phase1Names) : log[i].rv = VB2_SUCCESS
    /\ Len(log[2].hash) = Len(log[3].hash)
    /\ entry.nv.try_ro_sync # 0 => Len(log[4].hash) = Len(log[5].hash)

Phase1RwMatched == Phase1Passed /\ log[2].hash = log[3].hash

Phase1RoMatched == Phase1Passed /\ (entry.nv.try_ro_sync # 0 => log[4].hash = log[5].hash)

\* An update of the image succeeded and its re-hash equals the expected hash.
UpdatedOk(select) ==
    \E i \in DOMAIN log :
       /\ log[i].call = "vb2ex_ec_update_image"
       /\ log[i].select = select
       /\ log[i].rv = VB2_SUCCESS
       /\ i + 2 <= Len(log)
       /\ log[i + 1].rv = VB2_SUCCESS
       /\ log[i + 2].rv = VB2_SUCCESS
       /\ log[i + 1].hash = log[i + 2].hash

SyncEcNames(in_rw) ==
    (IF in_rw THEN << >> ELSE << <<"vb2ex_ec_jump_to_rw", "-">> >>)
    \o << <<"vb2ex_ec_protect", VB_SELECT_FIRMWARE_READONLY>>,
          <<"vb2ex_ec_protect", RwSelect>>,
          <<"vb2ex_ec_disable_jump", "-">>,
          <<"vb2ex_ec_vboot_done", "-">> >>

(***************************************************************************)
(* C1: on an A/B (EFS) device, an invocation whose RW update and re-hash   *)
(* succeed returns reboot-to-switch-RW and issues no jump, protect or      *)
(* disable-jump (and phase 1 finding an RW mismatch leads to that update   *)
(* once phase 2 runs); an invocation in which the hashes match performs    *)
(* no update, issues jump (exactly if the EC was not in RW), protect RO,   *)
(* protect RW, disable-jump, vboot-done in that order up to the first call *)
(* that fails, and ends with success and sync complete when none fails.    *)
(***************************************************************************)
C1_SwitchThenSync ==
    (pc = "done" /\ IsEfs) =>
      /\ (/\ Phase1Passed /\ ~Phase1RwMatched /\ SyncEnabled /\ NormalBoot
          /\ ~(need_wait_screen /\ VB2_SD_FLAG_DISPLAY_AVAILABLE \notin sd.flags))
            => HasCallSel("vb2ex_ec_update_image", VB_SELECT_FIRMWARE_EC_UPDATE)
      /\ UpdatedOk(VB_SELECT_FIRMWARE_EC_UPDATE) =>
            /\ rv = VBERROR_EC_REBOOT_TO_SWITCH_RW
            /\ ~HasCall("vb2ex_ec_jump_to_rw")
            /\ ~HasCall("vb2ex_ec_protect")
            /\ ~HasCall("vb2ex_ec_disable_jump")
            /\ VB2_SD_STATUS_EC_SYNC_COMPLETE \notin sd.flags
      /\ (/\ SyncEnabled /\ NormalBoot
          /\ entry.sd.flags \cap NeedsUpdateFlags = {}
          /\ Phase1RwMatched /\ Phase1RoMatched) =>
            /\ ~HasCall("vb2ex_ec_update_image")
            /\ IsPrefix(CallNames, Phase1Names \o SyncEcNames(log[1].in_rw))
            /\ AllOk => /\ CallNames = Phase1Names \o SyncEcNames(log[1].in_rw)
                        /\ rv = VB2_SUCCESS
                        /\ VB2_SD_STATUS_EC_SYNC_COMPLETE \in sd.flags
            /\ ~AllOk => rv # VB2_SUCCESS

\* The boot after a reboot-to-switch-RW: the slots were swapped, the hashes
\* match, and the invocation jumped, protected and completed.
C1_Witness ==
    /\ pc = "done" /\ IsEfs /\ boots = 2 /\ ec.active = 1
    /\ Phase1RwMatched
    /\ HasCall("vb2ex_ec_jump_to_rw")
    /\ HasCall("vb2ex_ec_disable_jump")
    /\ rv = VB2_SUCCESS
    /\ VB2_SD_STATUS_EC_SYNC_COMPLETE \in sd.flags

(***************************************************************************)
(* C2: an invocation entered with the EC-sync-complete bit set returns     *)
(* success at once: no platform call, no screen, NV and shared data as     *)
(* they were at entry.                                                     *)
(***************************************************************************)
C2_AlreadyCompleteIsNoOp ==
    (calls > 0 /\ VB2_SD_STATUS_EC_SYNC_COMPLETE \in entry.sd.flags) =>
      /\ pc = "done"
      /\ rv = VB2_SUCCESS
      /\ log = << >>
      /\ nv = entry.nv
      /\ sd = entry.sd

\* The second invocation of a boot whose first invocation completed sync.
C2_Witness ==
    /\ calls = 2
    /\ pc = "done"
    /\ VB2_SD_STATUS_EC_SYNC_COMPLETE \in entry.sd.flags
    /\ VB2_SD_FLAG_ECSYNC_EC_IN_RW \in sd.flags

(***************************************************************************)
(* More log reading: the stage of the EC sync state machine a logged call  *)
(* belongs to.  The hash fetches that follow an image write are the        *)
(* re-hash of update_ec and belong to the update.                          *)
(***************************************************************************)
IsRehash(i) ==
    \/ /\ log[i].call = "vb2ex_ec_hash_image"
       /\ i > 1
       /\ log[i - 1].call = "vb2ex_ec_update_image"
    \/ /\ log[i].call = "vb2ex_ec_get_expected_image_hash"
       /\ i > 2
       /\ log[i - 2].call = "vb2ex_ec_update_image"

IsHashFetch(i) ==
    log[i].call \in {"vb2ex_ec_hash_image", "vb2ex_ec_get_expected_image_hash"}

IsEcCall(i) == log[i].call # "VbDisplayScreen"

Stage(i) ==
    LET e == log[i]
        ro == e.select = VB_SELECT_FIRMWARE_READONLY
    IN  IF e.call = "vb2ex_ec_running_rw" THEN "INIT"
        ELSE IF e.call = "vb2ex_ec_update_image" \/ (IsHashFetch(i) /\ IsRehash(i))
        THEN (IF ro THEN "UPDATE_RO" ELSE "UPDATE_RW")
        ELSE IF IsHashFetch(i)
        THEN (IF ro THEN "HASH_CHECK_RO" ELSE "HASH_CHECK_RW")
        ELSE IF e.call = "vb2ex_ec_jump_to_rw" THEN "JUMP_RW"
        ELSE IF e.call = "vb2ex_ec_protect" THEN "PROTECT"
        ELSE "DONE"

InOrder(rank) ==
    \A i, j \in DOMAIN log :
       (i < j /\ IsEcCall(i) /\ IsEcCall(j)) => rank[Stage(i)] <= rank[Stage(j)]

NoImageWriteJumpProtect ==
    /\ ~HasCall("vb2ex_ec_update_image")
    /\ ~HasCall("vb2ex_ec_jump_to_rw")
    /\ ~HasCall("vb2ex_ec_protect")
    /\ ~HasCall("vb2ex_ec_disable_jump")

SlowUpdatePending ==
    /\ sd.flags \cap NeedsUpdateFlags # {}
    /\ VB2_CONTEXT_EC_SYNC_SLOW \in ctx_flags

(***************************************************************************)
(* C3 as stated: every invocation returns success, reboot-to-RO required   *)
(* or reboot-to-switch-RW (a fatal error being reported as reboot-to-RO    *)
(* with a recovery request) and no other value.                            *)
(***************************************************************************)
C3_Original ==
    pc = "done" =>
      rv \in {VB2_SUCCESS, VBERROR_EC_REBOOT_TO_RO_REQUIRED,
              VBERROR_EC_REBOOT_TO_SWITCH_RW}

(***************************************************************************)
(* C3 amended: every invocation returns success, reboot-to-RO required,    *)
(* reboot-to-switch-RW, the ordinary reboot-required (display request set  *)
(* in NV, before any image write, jump or protect), the value              *)
(* vb2ex_ec_protect returned (recovery 'EC protect' requested when it is   *)
(* not reboot-to-RO), or the value vb2ex_ec_vboot_done returned (no        *)
(* recovery request made).                                                 *)
(***************************************************************************)
C3_ReturnValues ==
    pc = "done" =>
      \/ rv \in {VB2_SUCCESS, VBERROR_EC_REBOOT_TO_RO_REQUIRED,
                 VBERROR_EC_REBOOT_TO_SWITCH_RW}
      \/ /\ rv = VBERROR_REBOOT_REQUIRED
         /\ nv.display_request = 1
         /\ NoImageWriteJumpProtect
      \/ /\ log # << >>
         /\ LastCall.call = "vb2ex_ec_protect"
         /\ rv = LastCall.rv
         /\ nv.recovery_request = VB2_RECOVERY_EC_PROTECT
      \/ /\ log # << >>
         /\ LastCall.call = "vb2ex_ec_vboot_done"
         /\ rv = LastCall.rv
         /\ nv.recovery_request = entry.nv.recovery_request

\* A protect error other than reboot-to-RO came back from the invocation.
C3_Witness ==
    /\ pc = "done"
    /\ rv = VB2_ERROR_UNKNOWN
    /\ LastCall.call = "vb2ex_ec_protect"
    /\ entry.nv.recovery_request = VB2_RECOVERY_LEGACY

(***************************************************************************)
(* C4 as stated: the EC operations of an invocation occur in the order     *)
(* INIT, RW hash check, RW update, jump to RW, RO hash check, RO update,   *)
(* protect, done; the RO hash check never precedes the RW update or the    *)
(* jump.                                                                   *)
(***************************************************************************)
C4_Original ==
    InOrder([INIT |-> 0, HASH_CHECK_RW |-> 1, UPDATE_RW |-> 2, JUMP_RW |-> 3,
             HASH_CHECK_RO |-> 4, UPDATE_RO |-> 5, PROTECT |-> 6, DONE |-> 7])

(***************************************************************************)
(* C4 amended: the order is INIT, RW hash check, RO hash check (phase 1),  *)
(* RW update with its re-hash, jump to RW, RO update with its re-hash,     *)
(* protect, done.                                                          *)
(***************************************************************************)
C4_OrderOfOperations ==
    InOrder([INIT |-> 0, HASH_CHECK_RW |-> 1, HASH_CHECK_RO |-> 2, UPDATE_RW |-> 3,
             JUMP_RW |-> 4, UPDATE_RO |-> 5, PROTECT |-> 6, DONE |-> 7])

\* An invocation that went through every stage.
C4_Witness ==
    /\ pc = "done"
    /\ rv = VB2_SUCCESS
    /\ \A st \in {"INIT", "HASH_CHECK_RW", "HASH_CHECK_RO", "UPDATE_RW", "JUMP_RW",
                  "UPDATE_RO", "PROTECT", "DONE"} :
          \E i \in DOMAIN log : IsEcCall(i) /\ Stage(i) = st

(***************************************************************************)
(* Which phase 1 query failed in the invocation that is done, if one did.  *)
(***************************************************************************)
FailedQuery ==
    IF log = << >> \/ HasCall("vb2ex_ec_update_image") \/ HasCall("VbDisplayScreen")
    THEN "none"
    ELSE IF LastCall.call = "vb2ex_ec_running_rw" /\ LastCall.rv # VB2_SUCCESS
    THEN "running"
    ELSE IF LastCall.call = "vb2ex_ec_hash_image" /\ LastCall.rv # VB2_SUCCESS
    THEN "live"
    ELSE IF LastCall.call = "vb2ex_ec_get_expected_image_hash" /\ LastCall.rv # VB2_SUCCESS
    THEN "expected"
    ELSE IF /\ LastCall.call = "vb2ex_ec_get_expected_image_hash"
            /\ Len(LastCall.hash) # Len(log[Len(log) - 1].hash)
    THEN "size"
    ELSE "none"

ReasonOfQuery ==
    [running |-> VB2_RECOVERY_EC_UNKNOWN_IMAGE, live |-> VB2_RECOVERY_EC_HASH_FAILED,
     expected |-> VB2_RECOVERY_EC_EXPECTED_HASH, size |-> VB2_RECOVERY_EC_HASH_SIZE]

(***************************************************************************)
(* C5 as stated: a failed phase 1 query sets its own recovery request and  *)
(* the invocation returns reboot-to-RO required before any update, jump    *)
(* or protect.                                                             *)
(***************************************************************************)
C5_Original ==
    (pc = "done" /\ FailedQuery # "none") =>
      /\ nv.recovery_request = ReasonOfQuery[FailedQuery]
      /\ rv = VBERROR_EC_REBOOT_TO_RO_REQUIRED
      /\ NoImageWriteJumpProtect

(***************************************************************************)
(* C5 amended: a failed phase 1 query sets its own recovery request and    *)
(* the invocation stops before any update, jump or protect; it returns     *)
(* reboot-to-RO required, except that it returns the ordinary              *)
(* reboot-required (with the display request set) when a slow update is    *)
(* pending and the display is not available.                               *)
(***************************************************************************)
C5_Phase1Failure ==
    (pc = "done" /\ FailedQuery # "none") =>
      /\ nv.recovery_request = ReasonOfQuery[FailedQuery]
      /\ Cardinality({ReasonOfQuery[q] : q \in DOMAIN ReasonOfQuery}) = 4
      /\ NoImageWriteJumpProtect
      /\ IF SlowUpdatePending /\ VB2_SD_FLAG_DISPLAY_AVAILABLE \notin sd.flags
         THEN rv = VBERROR_REBOOT_REQUIRED /\ nv.display_request = 1
         ELSE rv = VBERROR_EC_REBOOT_TO_RO_REQUIRED

\* The RO expected-hash fetch failed after the RW check found a mismatch, on
\* a slow-sync device without display.
C5_Witness ==
    /\ pc = "done"
    /\ FailedQuery = "expected"
    /\ LastCall.select = VB_SELECT_FIRMWARE_READONLY
    /\ rv = VBERROR_REBOOT_REQUIRED

(***************************************************************************)
(* C6 as stated: with EC sync unsupported or disabled by the GBB flag, an  *)
(* invocation (outside recovery mode) makes no running-image query, hash   *)
(* fetch, update, jump or protect, sets no recovery request, and returns   *)
(* success with sync marked complete.                                      *)
(***************************************************************************)
C6_Original ==
    (pc = "done" /\ ~SyncEnabled /\ VB2_CONTEXT_RECOVERY_MODE \notin ctx_flags) =>
      /\ ~HasCall("vb2ex_ec_running_rw")
      /\ ~HasCall("vb2ex_ec_hash_image")
      /\ NoImageWriteJumpProtect
      /\ nv = entry.nv
      /\ rv = VB2_SUCCESS
      /\ VB2_SD_STATUS_EC_SYNC_COMPLETE \in sd.flags

(***************************************************************************)
(* C6 amended: with EC sync unsupported or disabled by the GBB flag, an    *)
(* invocation makes no running-image query, hash fetch, update, jump,      *)
(* protect or disable-jump and sets no recovery request; outside recovery  *)
(* mode its only platform call is vb2ex_ec_vboot_done, and it returns      *)
(* success with sync marked complete if that call succeeds and the call's  *)
(* error, with sync not marked complete, if it fails.                      *)
(***************************************************************************)
C6_SyncDisabled ==
    (pc = "done" /\ ~SyncEnabled) =>
      /\ ~HasCall("vb2ex_ec_running_rw")
      /\ ~HasCall("vb2ex_ec_hash_image")
      /\ NoImageWriteJumpProtect
      /\ nv = entry.nv
      /\ IF \/ VB2_SD_STATUS_EC_SYNC_COMPLETE \in entry.sd.flags
            \/ VB2_CONTEXT_RECOVERY_MODE \in ctx_flags
         THEN log = << >> /\ rv = VB2_SUCCESS /\ sd = entry.sd
         ELSE /\ CallNames = << <<"vb2ex_ec_vboot_done", "-">> >>
              /\ rv = log[1].rv
              /\ (VB2_SD_STATUS_EC_SYNC_COMPLETE \in sd.flags) = (rv = VB2_SUCCESS)

\* Sync disabled by the GBB flag on a device that supports it, and the
\* platform refused vboot_done.
C6_Witness ==
    /\ pc = "done"
    /\ VB2_CONTEXT_EC_SYNC_SUPPORTED \in ctx_flags
    /\ VB2_GBB_FLAG_DISABLE_EC_SOFTWARE_SYNC \in gbb_flags
    /\ HasCall("vb2ex_ec_vboot_done")
    /\ rv = VB2_ERROR_UNKNOWN

IsRo(i) == log[i].select = VB_SELECT_FIRMWARE_READONLY

(***************************************************************************)
(* C7 as stated: the RW hash check that decides whether an RW update is    *)
(* needed fetches the live and the expected hash for the RW-update slot    *)
(* on A/B devices and for the RW-active slot on the others.                *)
(***************************************************************************)
C7_Original ==
    \A i \in DOMAIN log :
       (IsHashFetch(i) /\ ~IsRehash(i) /\ ~IsRo(i)) => log[i].select = RwSelect

(***************************************************************************)
(* C7 amended: the RW hash check that decides whether an RW update is      *)
(* needed always fetches the live and the expected hash of the RW-active   *)
(* slot; the RW image write and the re-hash that follows it use the        *)
(* RW-update slot on A/B devices and the RW-active slot on the others.     *)
(***************************************************************************)
C7_RwHashSelect ==
    \A i \in DOMAIN log :
       /\ (IsHashFetch(i) /\ ~IsRehash(i) /\ ~IsRo(i)) =>
             log[i].select = VB_SELECT_FIRMWARE_EC_ACTIVE
       /\ (log[i].call = "vb2ex_ec_update_image" /\ ~IsRo(i)) =>
             log[i].select = RwSelect
       /\ (IsHashFetch(i) /\ IsRehash(i) /\ ~IsRo(i)) => log[i].select = RwSelect

\* An A/B device whose phase 1 found a mismatch and whose update slot was
\* written and hashed again.
C7_Witness ==
    /\ IsEfs
    /\ Len(log) >= 6
    /\ log[3].call = "vb2ex_ec_get_expected_image_hash"
    /\ log[3].select = VB_SELECT_FIRMWARE_EC_ACTIVE
    /\ log[2].hash # log[3].hash
    /\ \E i \in DOMAIN log :
          /\ IsHashFetch(i)
          /\ IsRehash(i)
          /\ log[i].call = "vb2ex_ec_get_expected_image_hash"
          /\ log[i].select = VB_SELECT_FIRMWARE_EC_UPDATE

IsRwWrite(i) == log[i].call = "vb2ex_ec_update_image" /\ ~IsRo(i)

\* The re-hash after the write at i was fetched and still differs.
RehashMismatch(i) ==
    /\ i + 2 <= Len(log)
    /\ log[i + 1].rv = VB2_SUCCESS
    /\ log[i + 2].rv = VB2_SUCCESS
    /\ Len(log[i + 1].hash) = Len(log[i + 2].hash)
    /\ log[i + 1].hash # log[i + 2].hash

(***************************************************************************)
(* C8: the EC-RW image is written only if the RW-needs-update flag is set  *)
(* (left from before or set by the phase 1 mismatch); a successful write   *)
(* is followed by a hash fetch of the same image, and if that hash still   *)
(* differs the recovery request is 'EC update' and reboot-to-RO required   *)
(* is returned; a failed write returns reboot-to-RO required, with         *)
(* recovery 'EC update' requested unless the EC answered reboot-to-RO      *)
(* required, in which case the request is left as it was.                  *)
(***************************************************************************)
C8_RwUpdate ==
    \A i \in DOMAIN log :
       IsRwWrite(i) =>
         /\ \/ VB2_SD_FLAG_ECSYNC_EC_RW \in entry.sd.flags
            \/ Phase1Passed /\ log[2].hash # log[3].hash
         /\ log[i].rv = VB2_SUCCESS =>
              /\ i + 1 <= Len(log)
              /\ log[i + 1].call = "vb2ex_ec_hash_image"
              /\ log[i + 1].select = log[i].select
         /\ (log[i].rv = VB2_SUCCESS /\ RehashMismatch(i)) =>
              /\ pc = "done"
              /\ rv = VBERROR_EC_REBOOT_TO_RO_REQUIRED
              /\ nv.recovery_request = VB2_RECOVERY_EC_UPDATE
         /\ log[i].rv # VB2_SUCCESS =>
              /\ pc = "done"
              /\ rv = VBERROR_EC_REBOOT_TO_RO_REQUIRED
              /\ i = Len(log)
              /\ nv.recovery_request =
                    IF log[i].rv = VBERROR_EC_REBOOT_TO_RO_REQUIRED
                    THEN entry.nv.recovery_request
                    ELSE VB2_RECOVERY_EC_UPDATE

\* A write that succeeded but left the image different from the expected one.
C8_Witness ==
    /\ pc = "done"
    /\ entry.nv.recovery_request = VB2_RECOVERY_NOT_REQUESTED
    /\ \E i \in DOMAIN log :
          IsRwWrite(i) /\ log[i].rv = VB2_SUCCESS /\ RehashMismatch(i)

\* Phase 2 is past the point where sync_ec decides about the jump.
PastJumpStep ==
    \/ pc \in {"sync_ec_update_ro", "sync_ec_update_ro_try", "sync_ec_protect_ro",
               "sync_ec_protect_rw", "sync_ec_disable_jump"}
    \/ HasCall("vb2ex_ec_jump_to_rw")
    \/ HasCall("vb2ex_ec_protect")

(***************************************************************************)
(* C9: phase 2 issues the jump to RW exactly when phase 1 did not find     *)
(* the EC in RW; a jump that replies reboot-to-RO required makes the       *)
(* invocation return that value with the recovery request untouched; any   *)
(* other jump error requests recovery 'EC jump RW' and returns             *)
(* reboot-to-RO required; after a failed jump no protect and no            *)
(* disable-jump is issued.                                                 *)
(***************************************************************************)
C9_JumpToRw ==
    /\ PastJumpStep =>
         /\ log # << >>
         /\ log[1].call = "vb2ex_ec_running_rw"
         /\ HasCall("vb2ex_ec_jump_to_rw") = ~log[1].in_rw
    /\ \A i \in DOMAIN log :
          (log[i].call = "vb2ex_ec_jump_to_rw" /\ log[i].rv # VB2_SUCCESS) =>
            /\ i = Len(log)
            /\ pc = "done"
            /\ rv = VBERROR_EC_REBOOT_TO_RO_REQUIRED
            /\ ~HasCall("vb2ex_ec_protect")
            /\ ~HasCall("vb2ex_ec_disable_jump")
            /\ nv.recovery_request =
                  IF log[i].rv = VBERROR_EC_REBOOT_TO_RO_REQUIRED
                  THEN entry.nv.recovery_request
                  ELSE VB2_RECOVERY_EC_JUMP_RW

\* The EC refused the jump with reboot-to-RO required while a recovery
\* request from before was pending.
C9_Witness ==
    /\ pc = "done"
    /\ log # << >>
    /\ LastCall.call = "vb2ex_ec_jump_to_rw"
    /\ LastCall.rv = VBERROR_EC_REBOOT_TO_RO_REQUIRED
    /\ nv.recovery_request = VB2_RECOVERY_LEGACY

(***************************************************************************)
(* C10: with the NV TRY_RO_SYNC flag clear and no RO-needs-update flag     *)
(* left from before when the invocation starts, no hash of the EC-RO       *)
(* image is fetched and the EC-RO image is not written.                    *)
(***************************************************************************)
C10_RoOnlyIfTryRoSync ==
    (calls > 0 /\ entry.nv.try_ro_sync = 0
               /\ VB2_SD_FLAG_ECSYNC_EC_RO \notin entry.sd.flags) =>
      \A i \in DOMAIN log :
         log[i].call \in {"vb2ex_ec_hash_image", "vb2ex_ec_get_expected_image_hash",
                          "vb2ex_ec_update_image"}
            => ~IsRo(i)

\* A complete sync with the flag clear on a device whose RO image is stale:
\* RW was checked and the images protected, RO was not looked at.
C10_Witness ==
    /\ pc = "done"
    /\ rv = VB2_SUCCESS
    /\ entry.nv.try_ro_sync = 0
    /\ VB2_SD_FLAG_ECSYNC_EC_RO \notin entry.sd.flags
    /\ ec.ro # ExpectedHash
    /\ HasCallSel("vb2ex_ec_hash_image", VB_SELECT_FIRMWARE_EC_ACTIVE)
    /\ HasCallSel("vb2ex_ec_protect", VB_SELECT_FIRMWARE_READONLY)

IsRoWrite(i) == log[i].call = "vb2ex_ec_update_image" /\ IsRo(i)

RoWrites == {i \in DOMAIN log : IsRoWrite(i)}

\* The update attempt whose write is log[i] succeeded: written, hashed again
\* and found equal to the expected hash.
AttemptOk(i) ==
    /\ log[i].rv = VB2_SUCCESS
    /\ i + 2 <= Len(log)
    /\ log[i + 1].rv = VB2_SUCCESS
    /\ log[i + 2].rv = VB2_SUCCESS
    /\ log[i + 1].hash = log[i + 2].hash

SyncComplete == VB2_SD_STATUS_EC_SYNC_COMPLETE \in sd.flags

(***************************************************************************)
(* C11: one invocation makes at most RO_RETRIES (two) attempts to update   *)
(* EC-RO; an attempt that failed is followed by another one unless it was  *)
(* the second; when both failed the invocation returns reboot-to-RO        *)
(* required without protect or disable-jump and without marking sync       *)
(* complete.                                                               *)
(***************************************************************************)
C11_RoRetries ==
    /\ Cardinality(RoWrites) <= RO_RETRIES
    /\ RO_RETRIES = 2
    /\ (pc = "done" /\ RoWrites # {} /\ \A i \in RoWrites : ~AttemptOk(i)) =>
         /\ Cardinality(RoWrites) = RO_RETRIES
         /\ rv = VBERROR_EC_REBOOT_TO_RO_REQUIRED
         /\ ~HasCall("vb2ex_ec_protect")
         /\ ~HasCall("vb2ex_ec_disable_jump")
         /\ ~HasCall("vb2ex_ec_vboot_done")
         /\ ~SyncComplete
    /\ \A i \in RoWrites :
          (~AttemptOk(i) /\ pc # "sync_ec_update_ro_try") =>
             \/ \E j \in RoWrites : j > i
             \/ Cardinality(RoWrites) = RO_RETRIES

\* Both attempts failed, the first at the write and the second at the re-hash.
C11_Witness ==
    /\ pc = "done"
    /\ Cardinality(RoWrites) = RO_RETRIES
    /\ \A i \in RoWrites : ~AttemptOk(i)
    /\ \E i, j \in RoWrites :
          i < j /\ log[i].rv # VB2_SUCCESS /\ log[j].rv = VB2_SUCCESS

(***************************************************************************)
(* C12: when an EC-RO update attempt failed and a later attempt of the     *)
(* same invocation succeeded, the NV recovery request after the loop       *)
(* equals the value it had before the first attempt, 'no request'          *)
(* included.                                                               *)
(***************************************************************************)
C12_RetryRestoresRequest ==
    (/\ pc = "sync_ec_protect_ro"
     /\ \E i, j \in RoWrites : i < j /\ ~AttemptOk(i) /\ AttemptOk(j)) =>
       nv.recovery_request = entry.nv.recovery_request

\* The first attempt failed with an error that requests recovery, the
\* second succeeded, and there was no request before.
C12_Witness ==
    /\ pc = "sync_ec_protect_ro"
    /\ entry.nv.recovery_request = VB2_RECOVERY_NOT_REQUESTED
    /\ \E i, j \in RoWrites :
          i < j /\ log[i].rv = VB2_ERROR_UNKNOWN /\ AttemptOk(j)

Protects == {i \in DOMAIN log : log[i].call = "vb2ex_ec_protect"}

(***************************************************************************)
(* C13: write-protect is requested for RO first and for the RW image       *)
(* second, and RW protect is not attempted when RO protect failed; a       *)
(* protect reply of reboot-to-RO required is returned as it is with the    *)
(* recovery request untouched, and any other protect error sets the NV     *)
(* recovery request to 'EC protect'.                                       *)
(***************************************************************************)
C13_ProtectOrder ==
    /\ Cardinality(Protects) <= 2
    /\ \A i \in Protects :
          /\ IsRo(i) = (\A j \in Protects : i <= j)
          /\ ~IsRo(i) => log[i].select = RwSelect /\ log[i - 1].rv = VB2_SUCCESS
          /\ log[i].rv # VB2_SUCCESS =>
               /\ i = Len(log)
               /\ pc = "done"
               /\ nv.recovery_request =
                     IF log[i].rv = VBERROR_EC_REBOOT_TO_RO_REQUIRED
                     THEN entry.nv.recovery_request
                     ELSE VB2_RECOVERY_EC_PROTECT
               /\ log[i].rv = VBERROR_EC_REBOOT_TO_RO_REQUIRED => rv = log[i].rv

\* RO protect succeeded and RW protect answered reboot-to-RO required.
C13_Witness ==
    /\ pc = "done"
    /\ rv = VBERROR_EC_REBOOT_TO_RO_REQUIRED
    /\ Cardinality(Protects) = 2
    /\ LastCall.call = "vb2ex_ec_protect"
    /\ LastCall.rv = VBERROR_EC_REBOOT_TO_RO_REQUIRED

\* The invocation got as far as sync_ec.
Phase2Ran ==
    /\ SyncEnabled
    /\ entry.sd.recovery_reason = VB2_RECOVERY_NOT_REQUESTED

(***************************************************************************)
(* C14: disable-jump is called only after both protects succeeded; on a    *)
(* run that executes phase 2 vb2ex_ec_vboot_done is called only after      *)
(* disable-jump succeeded; the complete bit is set only after vboot_done   *)
(* succeeded; a failed disable-jump requests recovery 'EC software sync'   *)
(* and returns reboot-to-RO required; an invocation that returns a         *)
(* non-success value has not set the complete bit.                         *)
(***************************************************************************)
C14_DoneOrder ==
    /\ \A i \in DOMAIN log :
          /\ log[i].call = "vb2ex_ec_disable_jump" =>
               /\ i > 2
               /\ log[i - 2].call = "vb2ex_ec_protect" /\ log[i - 2].rv = VB2_SUCCESS
               /\ log[i - 1].call = "vb2ex_ec_protect" /\ log[i - 1].rv = VB2_SUCCESS
               /\ IsRo(i - 2) /\ ~IsRo(i - 1)
          /\ (log[i].call = "vb2ex_ec_disable_jump" /\ log[i].rv # VB2_SUCCESS) =>
               /\ i = Len(log)
               /\ pc = "done"
               /\ rv = VBERROR_EC_REBOOT_TO_RO_REQUIRED
               /\ nv.recovery_request = VB2_RECOVERY_EC_SOFTWARE_SYNC
          /\ (log[i].call = "vb2ex_ec_vboot_done" /\ Phase2Ran) =>
               /\ i > 1
               /\ log[i - 1].call = "vb2ex_ec_disable_jump"
               /\ log[i - 1].rv = VB2_SUCCESS
    /\ (SyncComplete /\ VB2_SD_STATUS_EC_SYNC_COMPLETE \notin entry.sd.flags) =>
         /\ log # << >>
         /\ LastCall.call = "vb2ex_ec_vboot_done"
         /\ LastCall.rv = VB2_SUCCESS
    /\ (pc = "done" /\ rv # VB2_SUCCESS) => ~SyncComplete

\* Both protects succeeded and disable-jump failed.
C14_Witness ==
    /\ pc = "done"
    /\ log # << >>
    /\ LastCall.call = "vb2ex_ec_disable_jump"
    /\ LastCall.rv = VB2_ERROR_UNKNOWN
    /\ entry.nv.recovery_request = VB2_RECOVERY_LEGACY

EcSyncFlagBits ==
    {VB2_SD_FLAG_ECSYNC_EC_RO, VB2_SD_FLAG_ECSYNC_EC_RW, VB2_SD_FLAG_ECSYNC_EC_IN_RW}

FlagsChanged == (sd.flags \ entry.sd.flags) \cup (entry.sd.flags \ sd.flags)

(***************************************************************************)
(* C15: completion of EC sync is recorded in the status bitfield of the    *)
(* shared data, and the flags bitfield is changed by EC sync only in its   *)
(* EC-RO-needs-update, EC-RW-needs-update and EC-in-RW bits.               *)
(***************************************************************************)
C15_CompleteInStatus ==
    calls > 0 =>
      /\ (/\ pc = "done"
          /\ rv = VB2_SUCCESS
          /\ log # << >>
          /\ LastCall.call = "vb2ex_ec_vboot_done")
            => VB2_SD_STATUS_EC_SYNC_COMPLETE \in sd.status
      /\ FlagsChanged \subseteq EcSyncFlagBits

\* The invocation showed the WAIT screen.
ScreenShown == HasCallSel("VbDisplayScreen", VB_SCREEN_WAIT)

\* The two hash fetches at log[i] and log[i + 1] succeeded and differ.
FetchedMismatch(i) ==
    /\ i + 1 <= Len(log)
    /\ log[i].call = "vb2ex_ec_hash_image"
    /\ log[i + 1].call = "vb2ex_ec_get_expected_image_hash"
    /\ log[i].rv = VB2_SUCCESS
    /\ log[i + 1].rv = VB2_SUCCESS
    /\ Len(log[i].hash) = Len(log[i + 1].hash)
    /\ log[i].hash # log[i + 1].hash

\* An EC-RO or EC-RW update is pending when phase 1 is over, and the device
\* syncs slowly: what ec_will_update_slowly is asked before phase 2.
SlowAfterPhase1 ==
    /\ \/ entry.sd.flags \cap NeedsUpdateFlags # {}
       \/ FetchedMismatch(2)
       \/ FetchedMismatch(4)
    /\ VB2_CONTEXT_EC_SYNC_SLOW \in ctx_flags

\* The invocation is past the wait screen decision of vb2api_ec_sync.
PastScreenDecision ==
    /\ calls > 0
    /\ VB2_SD_STATUS_EC_SYNC_COMPLETE \notin entry.sd.flags
    /\ VB2_CONTEXT_RECOVERY_MODE \notin ctx_flags
    /\ pc \notin {"idle", "ec_sync_phase1", "phase1_hash_rw", "phase1_hash_ro",
                  "phase1_done"}

ScreenBeforeWrites ==
    \A i \in DOMAIN log :
       (ScreenShown /\ log[i].call = "vb2ex_ec_update_image") =>
          \E j \in 1..(i - 1) : log[j].call = "VbDisplayScreen"

(***************************************************************************)
(* C16 as stated: the invocation shows the WAIT screen if and only if      *)
(* ec_will_update_slowly returned true before phase 2, and the screen      *)
(* comes before any EC image write.                                        *)
(***************************************************************************)
C16_Original ==
    /\ PastScreenDecision => (ScreenShown = SlowAfterPhase1)
    /\ ScreenBeforeWrites

(***************************************************************************)
(* C16 amended: the invocation shows the WAIT screen if and only if        *)
(* ec_will_update_slowly returned true after phase 1, the display is       *)
(* available and phase 1 returned no error; the screen comes before any    *)
(* EC image write.  With the display unavailable the invocation asks for   *)
(* a reboot instead, and a phase 1 error is returned without the screen.   *)
(***************************************************************************)
C16_WaitScreen ==
    /\ PastScreenDecision =>
         ScreenShown = (/\ SlowAfterPhase1
                        /\ VB2_SD_FLAG_DISPLAY_AVAILABLE \in sd.flags
                        /\ phase1_rv = VB2_SUCCESS)
    /\ ScreenBeforeWrites

\* The screen was shown and both images were then written.
C16_Witness ==
    /\ ScreenShown
    /\ RoWrites # {}
    /\ \E i \in DOMAIN log : IsRwWrite(i)
    /\ pc = "done"
    /\ rv = VB2_SUCCESS

\* Phase 1 reached its last test with the EC reporting that it runs RW and
\* the RW hash check finding a mismatch.
InRwNeedingUpdate ==
    /\ Phase1Passed
    /\ log[1].in_rw
    /\ ~Phase1RwMatched

\* The running-image query of this invocation answered that the EC is in RW.
ReportedInRw ==
    /\ log # << >>
    /\ log[1].call = "vb2ex_ec_running_rw"
    /\ log[1].rv = VB2_SUCCESS
    /\ log[1].in_rw

DisplayMissing == VB2_SD_FLAG_DISPLAY_AVAILABLE \notin sd.flags

\* What C31 says of both kinds of device, but for the value returned.
C31_Common ==
    /\ (~IsEfs /\ ReportedInRw) => \A i \in DOMAIN log : ~IsRwWrite(i)
    /\ (pc = "done" /\ ~IsEfs /\ InRwNeedingUpdate) =>
         /\ nv.recovery_request = entry.nv.recovery_request
         /\ NoImageWriteJumpProtect
    /\ (/\ pc = "done" /\ IsEfs /\ InRwNeedingUpdate
        /\ entry.sd.recovery_reason = VB2_RECOVERY_NOT_REQUESTED
        /\ ~(SlowAfterPhase1 /\ DisplayMissing))
          => HasCallSel("vb2ex_ec_update_image", VB_SELECT_FIRMWARE_EC_UPDATE)

(***************************************************************************)
(* C31 as stated: without A/B support the EC-RW image is never written     *)
(* while the EC reported running RW: when phase 1 finds that RW needs an   *)
(* update and the EC is in RW the invocation returns reboot-to-RO          *)
(* required, sets no recovery request and issues no update, jump or        *)
(* protect; on an A/B device the same situation proceeds to the update.    *)
(***************************************************************************)
C31_Original ==
    /\ C31_Common
    /\ (pc = "done" /\ ~IsEfs /\ InRwNeedingUpdate) =>
         rv = VBERROR_EC_REBOOT_TO_RO_REQUIRED

(***************************************************************************)
(* C31 amended: as stated, except that the value returned is the ordinary  *)
(* reboot-required (with the NV display request set) when a slow update    *)
(* is pending and the display is not available, and reboot-to-RO required  *)
(* otherwise.                                                              *)
(***************************************************************************)
C31_NoRwWriteWhileInRw ==
    /\ C31_Common
    /\ (pc = "done" /\ ~IsEfs /\ InRwNeedingUpdate) =>
         IF SlowAfterPhase1 /\ DisplayMissing
         THEN rv = VBERROR_REBOOT_REQUIRED /\ nv.display_request = 1
         ELSE rv = VBERROR_EC_REBOOT_TO_RO_REQUIRED

\* Without A/B support the EC was found in RW with a stale RW image, on a
\* boot that entered with a recovery request in NV, and asked for a reset.
C31_Witness ==
    /\ pc = "done"
    /\ ~IsEfs
    /\ InRwNeedingUpdate
    /\ entry.nv.recovery_request = VB2_RECOVERY_LEGACY
    /\ rv = VBERROR_EC_REBOOT_TO_RO_REQUIRED

\* On an A/B device the same finding was followed by the update.
C31_WitnessAb ==
    /\ pc = "done"
    /\ IsEfs
    /\ InRwNeedingUpdate
    /\ HasCallSel("vb2ex_ec_update_image", VB_SELECT_FIRMWARE_EC_UPDATE)

\* The invocation got past the two early returns of vb2api_ec_sync.
PastEntry ==
    /\ calls > 0
    /\ VB2_SD_STATUS_EC_SYNC_COMPLETE \notin entry.sd.flags
    /\ VB2_CONTEXT_RECOVERY_MODE \notin ctx_flags

(***************************************************************************)
(* C32: when a slow update is pending after phase 1 and the display is     *)
(* not available, the invocation sets the NV display request to 1 and      *)
(* returns the ordinary reboot-required value, with no update, jump or     *)
(* protect and without the WAIT screen, whether or not phase 1 returned    *)
(* an error.                                                               *)
(***************************************************************************)
C32_RebootForDisplay ==
    (pc = "done" /\ PastEntry /\ SlowAfterPhase1 /\ DisplayMissing) =>
      /\ rv = VBERROR_REBOOT_REQUIRED
      /\ nv.display_request = 1
      /\ NoImageWriteJumpProtect
      /\ ~HasCall("vb2ex_ec_vboot_done")
      /\ ~ScreenShown

\* Phase 1 returned reboot-to-RO required and the invocation asked for the
\* display instead.
C32_Witness ==
    /\ pc = "done"
    /\ PastEntry
    /\ SlowAfterPhase1
    /\ DisplayMissing
    /\ phase1_rv = VBERROR_EC_REBOOT_TO_RO_REQUIRED
    /\ nv.display_request = 1
    /\ rv = VBERROR_REBOOT_REQUIRED

(***************************************************************************)
(* C33: in recovery mode an invocation returns success without any EC      *)
(* platform call, leaves the NV record as it was and does not set the      *)
(* EC-sync-complete bit (the shared data is as it was at entry).           *)
(***************************************************************************)
C33_RecoveryModeIsNoOp ==
    (calls > 0 /\ VB2_CONTEXT_RECOVERY_MODE \in ctx_flags) =>
      /\ pc = "done"
      /\ rv = VB2_SUCCESS
      /\ log = << >>
      /\ nv = entry.nv
      /\ sd = entry.sd
      /\ ~SyncComplete
      /\ VB2_SD_STATUS_EC_SYNC_COMPLETE \notin sd.status

\* A recovery-mode boot of a device that supports EC sync, with a stale RW
\* image, entered after a boot whose RW update failed and requested recovery.
C33_Witness ==
    /\ pc = "done"
    /\ calls = 1
    /\ boots = 2
    /\ VB2_CONTEXT_RECOVERY_MODE \in ctx_flags
    /\ SyncEnabled
    /\ ec.rw[ec.active] = StaleHash
    /\ nv.recovery_request = VB2_RECOVERY_EC_UPDATE
    /\ rv = VB2_SUCCESS

\* The boot has a recovery reason and phase 1 of the invocation succeeded.
RecoveryReasonAndPhase1Ok ==
    /\ pc = "done"
    /\ PastEntry
    /\ entry.sd.recovery_reason # VB2_RECOVERY_NOT_REQUESTED
    /\ phase1_rv = VB2_SUCCESS

\* The invocation ended with vb2ex_ec_vboot_done; when that succeeded sync is
\* marked complete and success is returned.
EndedWithVbootDone ==
    /\ log # << >>
    /\ LastCall.call = "vb2ex_ec_vboot_done"
    /\ LastCall.rv = VB2_SUCCESS => (rv = VB2_SUCCESS /\ SyncComplete)

(***************************************************************************)
(* C34 as stated: with a non-zero recovery reason in the shared data and   *)
(* phase 1 successful, phase 2 issues no update, jump, protect or          *)
(* disable-jump, yet the invocation calls vb2ex_ec_vboot_done and, when    *)
(* that succeeds, marks sync complete and returns success, even with a     *)
(* needs-update flag still set.                                            *)
(***************************************************************************)
C34_Original ==
    RecoveryReasonAndPhase1Ok =>
      /\ NoImageWriteJumpProtect
      /\ EndedWithVbootDone

(***************************************************************************)
(* C34 amended: as stated, except when a slow update is pending and the    *)
(* display is not available: then the invocation sets the NV display       *)
(* request and returns the ordinary reboot-required value without calling  *)
(* vb2ex_ec_vboot_done.                                                    *)
(***************************************************************************)
C34_RecoveryReasonSkipsPhase2 ==
    RecoveryReasonAndPhase1Ok =>
      /\ NoImageWriteJumpProtect
      /\ IF SlowAfterPhase1 /\ DisplayMissing
         THEN /\ rv = VBERROR_REBOOT_REQUIRED
              /\ nv.display_request = 1
              /\ ~HasCall("vb2ex_ec_vboot_done")
         ELSE EndedWithVbootDone

\* Sync was marked complete with the RW needs-update flag set, on a device
\* where EC sync is enabled.
C34_Witness ==
    /\ RecoveryReasonAndPhase1Ok
    /\ SyncEnabled
    /\ VB2_SD_FLAG_ECSYNC_EC_RW \in sd.flags
    /\ LastCall.call = "vb2ex_ec_vboot_done"
    /\ rv = VB2_SUCCESS
    /\ SyncComplete

\* log[k] is a fetch of the live hash of an EC-RW image.
IsRwHash(k) == log[k].call = "vb2ex_ec_hash_image" /\ ~IsRo(k)

\* The comparison that starts with the live hash at log[k] was made and the
\* two hashes are equal.
ComparisonMatched(k) ==
    /\ log[k].rv = VB2_SUCCESS
    /\ k + 1 <= Len(log)
    /\ log[k + 1].call = "vb2ex_ec_get_expected_image_hash"
    /\ log[k + 1].rv = VB2_SUCCESS
    /\ log[k].hash = log[k + 1].hash

\* The last EC-RW hash comparison before log[i] exists and matched.
LastRwComparisonMatched(i) ==
    \E k \in 1..(i - 1) :
       /\ IsRwHash(k)
       /\ \A m \in (k + 1)..(i - 1) : ~IsRwHash(m)
       /\ ComparisonMatched(k)

(***************************************************************************)
(* C35: within one invocation the jump to RW is issued only if the most    *)
(* recent hash comparison of the EC-RW image matched the expected hash     *)
(* (that of phase 1, or the re-hash after an update); the EC is never      *)
(* told to jump into an RW image whose last check mismatched or failed.    *)
(***************************************************************************)
C35_JumpOnlyAfterMatch ==
    \A i \in DOMAIN log :
       log[i].call = "vb2ex_ec_jump_to_rw" => LastRwComparisonMatched(i)

\* The jump followed an RW update whose re-hash matched, phase 1 having
\* found a mismatch.
C35_Witness ==
    /\ \E i \in DOMAIN log :
          /\ log[i].call = "vb2ex_ec_jump_to_rw"
          /\ \E w \in 1..(i - 1) : IsRwWrite(w) /\ AttemptOk(w)
    /\ FetchedMismatch(2)

(***************************************************************************)
(* C36: whenever an invocation returns success the NV recovery request     *)
(* equals its value at entry; it is left changed only when the value       *)
(* returned is not success.                                                *)
(***************************************************************************)
C36_SuccessKeepsRecoveryRequest ==
    (pc = "done" /\ rv = VB2_SUCCESS) =>
      nv.recovery_request = entry.nv.recovery_request

\* Success after a failed EC-RO attempt that had set a recovery request, on
\* a boot that entered with another request in NV.
C36_Witness ==
    /\ pc = "done"
    /\ rv = VB2_SUCCESS
    /\ Cardinality(RoWrites) = 2
    /\ entry.nv.recovery_request = VB2_RECOVERY_LEGACY
    /\ \E i \in RoWrites : log[i].rv = VB2_ERROR_UNKNOWN

\* The invocation reached the EC-RO update of phase 2.
RoUpdateReached == pc = "sync_ec_update_ro_try" \/ RoWrites # {}

\* The invocation made an RO hash check or an RO write.
RoSyncDone == HasCallSel("vb2ex_ec_hash_image", VB_SELECT_FIRMWARE_READONLY) \/ RoWrites # {}

\* The request is cleared once the RO update is reached, and an invocation
\* entered without the request and without the RO needs-update flag makes
\* no RO hash check and no RO write.
C38_Cleared ==
    /\ RoUpdateReached => nv.try_ro_sync = 0
    /\ (/\ calls > 0
        /\ entry.nv.try_ro_sync = 0
        /\ VB2_SD_FLAG_ECSYNC_EC_RO \notin entry.sd.flags) => ~RoSyncDone

\* EC sync never sets the request, and the boot after an invocation that
\* reached the RO update starts without the request and without the flag.
C38_Step ==
    /\ nv.try_ro_sync = 0 => nv'.try_ro_sync = 0
    /\ (RoUpdateReached /\ boots' = boots + 1) =>
          /\ nv'.try_ro_sync = 0
          /\ VB2_SD_FLAG_ECSYNC_EC_RO \notin sd'.flags

(***************************************************************************)
(* C38: an RO sync request is one-shot.  Once phase 2 reaches the EC-RO    *)
(* update NV TRY_RO_SYNC is cleared before the first write attempt, so it  *)
(* is 0 after the invocation whether the update succeeded or every         *)
(* attempt failed, and the next boot makes no RO sync as long as nothing   *)
(* sets the flag again.                                                    *)
(***************************************************************************)
C38_RoSyncOneShot == [](C38_Cleared) /\ [][C38_Step]_vars

\* Both attempts of a requested RO sync failed and the request is gone.
C38_Witness ==
    /\ pc = "done"
    /\ entry.nv.try_ro_sync = 1
    /\ Cardinality(RoWrites) = RO_RETRIES
    /\ rv = VBERROR_EC_REBOOT_TO_RO_REQUIRED
    /\ nv.try_ro_sync = 0

\* The boot after a failed RO sync completed without looking at EC-RO, which
\* is still stale.
C38_WitnessNextBoot ==
    /\ pc = "done"
    /\ boots = 2
    /\ SyncEnabled
    /\ NormalBoot
    /\ nv.recovery_request = VB2_RECOVERY_EC_UPDATE
    /\ ec.ro = StaleHash
    /\ ~RoSyncDone
    /\ rv = VB2_SUCCESS

(***************************************************************************)
(* EC sync with an EC that behaves correctly and with the display          *)
(* available.  Every platform call succeeds, a hash fetch returns the      *)
(* whole hash, an update leaves the image with the expected hash, the      *)
(* firmware calls vb2api_ec_sync once in a boot and reboots when the       *)
(* value returned asks for it.                                             *)
(***************************************************************************)
CorrectEc ==
    /\ AllOk
    /\ \A i \in DOMAIN log :
          /\ log[i].call = "vb2ex_ec_hash_image" => Len(log[i].hash) = HashLen
          /\ (log[i].call = "vb2ex_ec_update_image" /\ i < Len(log))
                => log[i + 1].hash = ExpectedHash

InitCorrectEc ==
    /\ Init
    /\ VB2_SD_FLAG_DISPLAY_AVAILABLE \in sd.flags

NextCorrectEc ==
    \/ vb2api_ec_sync /\ calls = 0
    \/ ec_sync_phase1 /\ CorrectEc'
    \/ ec_sync_phase1_hash_rw /\ CorrectEc'
    \/ ec_sync_phase1_hash_ro /\ CorrectEc'
    \/ ec_sync_phase2 /\ CorrectEc'
    \/ sync_ec_update_rw /\ CorrectEc'
    \/ sync_ec_jump_rw /\ CorrectEc'
    \/ sync_ec_update_ro /\ CorrectEc'
    \/ sync_ec_update_ro_try /\ CorrectEc'
    \/ sync_ec_protect_ro /\ CorrectEc'
    \/ sync_ec_protect_rw /\ CorrectEc'
    \/ sync_ec_disable_jump /\ CorrectEc'
    \/ vb2ex_ec_vboot_done /\ CorrectEc'
    \/ Reboot /\ rv # VB2_SUCCESS /\ VB2_SD_FLAG_DISPLAY_AVAILABLE \in sd'.flags

\* The code of an invocation runs to its return, every boot calls
\* vb2api_ec_sync, and a reboot asked for takes place.
SpecCorrectEc == InitCorrectEc /\ [][NextCorrectEc]_vars /\ WF_vars(NextCorrectEc)

ReturnedSuccess == pc = "done" /\ rv = VB2_SUCCESS

\* A reboot is asked for in the first boot only.
OneRebootAtMost == (pc = "done" /\ rv # VB2_SUCCESS) => boots = 1

(***************************************************************************)
(* C37 as stated: with a correct EC and the display available, repeated    *)
(* boots that each call vb2api_ec_sync eventually reach an invocation      *)
(* that returns success with sync complete, after a bounded number of      *)
(* reboots.                                                                *)
(***************************************************************************)
C37_Original == <>(ReturnedSuccess /\ SyncComplete) /\ []OneRebootAtMost

(***************************************************************************)
(* C37 amended: with a correct EC and the display available, repeated      *)
(* boots that each call vb2api_ec_sync eventually reach an invocation      *)
(* that returns success, with sync complete unless that boot is in         *)
(* recovery mode, and a reboot is asked for at most once.                  *)
(***************************************************************************)
C37_EventuallySynced ==
    /\ <>(ReturnedSuccess /\ (SyncComplete \/ VB2_CONTEXT_RECOVERY_MODE \in ctx_flags))
    /\ []OneRebootAtMost

\* Sync completed in the boot that followed a reboot the first boot asked for,
\* after an update and a jump.
C37_Witness ==
    /\ ReturnedSuccess
    /\ SyncComplete
    /\ boots = 2
    /\ VB2_CONTEXT_RECOVERY_MODE \notin ctx_flags
    /\ HasCall("vb2ex_ec_update_image")
    /\ HasCall("vb2ex_ec_jump_to_rw")

(***************************************************************************)
(* 2common.c, vb2_verify_member_inside.  Addresses and sizes are           *)
(* uintptr_t and size_t, offsets are ptrdiff_t, all PtrBits wide: an       *)
(* unsigned value is kept modulo PtrMod, a signed one is its two's         *)
(* complement reading.                                                     *)
(***************************************************************************)
PtrBits == 3

PtrMod == 2 ^ PtrBits

Unsigned == 0..(PtrMod - 1)

Signed == (0 - PtrMod \div 2)..(PtrMod \div 2 - 1)

ToUnsigned(x) == x % PtrMod

ToSigned(x) ==
    LET u == x % PtrMod
    IN  IF u >= PtrMod \div 2 THEN u - PtrMod ELSE u

VB2_ERROR_INSIDE_PARENT_WRAPS == "VB2_ERROR_INSIDE_PARENT_WRAPS"
VB2_ERROR_INSIDE_MEMBER_WRAPS == "VB2_ERROR_INSIDE_MEMBER_WRAPS"
VB2_ERROR_INSIDE_MEMBER_OUTSIDE == "VB2_ERROR_INSIDE_MEMBER_OUTSIDE"
VB2_ERROR_INSIDE_DATA_WRAPS == "VB2_ERROR_INSIDE_DATA_WRAPS"
VB2_ERROR_INSIDE_DATA_OUTSIDE == "VB2_ERROR_INSIDE_DATA_OUTSIDE"
VB2_ERROR_INSIDE_DATA_OVERLAP == "VB2_ERROR_INSIDE_DATA_OVERLAP"

vb2_offset_of(base, ptr) == ToSigned(ToUnsigned(ptr) - ToUnsigned(base))

\* The checks on the member.  A ptrdiff_t compared with the size_t
\* parent_size is converted to unsigned.
inside_member_checks_outside_first(parent_size, member_offs, member_end_offs) ==
    IF \/ member_offs < 0
       \/ ToUnsigned(member_offs) > parent_size
       \/ ToUnsigned(member_end_offs) > parent_size
    THEN VB2_ERROR_INSIDE_MEMBER_OUTSIDE
    ELSE IF member_end_offs < member_offs
    THEN VB2_ERROR_INSIDE_MEMBER_WRAPS
    ELSE VB2_SUCCESS

inside_member_checks(parent_size, member_offs, member_end_offs) ==
    IF member_end_offs < member_offs
    THEN VB2_ERROR_INSIDE_MEMBER_WRAPS
    ELSE IF \/ member_offs < 0
            \/ ToUnsigned(member_offs) > parent_size
            \/ ToUnsigned(member_end_offs) > parent_size
    THEN VB2_ERROR_INSIDE_MEMBER_OUTSIDE
    ELSE VB2_SUCCESS

\* The checks on the member data.
inside_data_checks_no_wrap_check(parent_size, member_end_offs, data_offs, data_end_offs, member_data_size) ==
    IF member_data_size > 0 /\ data_offs < member_end_offs
    THEN VB2_ERROR_INSIDE_DATA_OVERLAP
    ELSE IF \/ data_offs < 0
            \/ ToUnsigned(data_offs) > parent_size
            \/ ToUnsigned(data_end_offs) > parent_size
    THEN VB2_ERROR_INSIDE_DATA_OUTSIDE
    ELSE VB2_SUCCESS

inside_data_checks(parent_size, member_end_offs, data_offs, data_end_offs, member_data_size) ==
    IF member_data_size > 0 /\ data_offs < member_end_offs
    THEN VB2_ERROR_INSIDE_DATA_OVERLAP
    ELSE IF data_end_offs < data_offs
    THEN VB2_ERROR_INSIDE_DATA_WRAPS
    ELSE IF \/ data_offs < 0
            \/ ToUnsigned(data_offs) > parent_size
            \/ ToUnsigned(data_end_offs) > parent_size
    THEN VB2_ERROR_INSIDE_DATA_OUTSIDE
    ELSE VB2_SUCCESS

vb2_verify_member_inside(parent, parent_size, member, member_size, member_data_offset, member_data_size) ==
    LET parent_end == ToUnsigned(parent + parent_size)
        member_offs == vb2_offset_of(parent, member)
        member_end_offs == ToSigned(member_offs + member_size)
        data_offs == ToSigned(member_offs + member_data_offset)
        data_end_offs == ToSigned(data_offs + member_data_size)
        member_rv == inside_member_checks(parent_size, member_offs, member_end_offs)
    IN  IF parent_end < parent
        THEN VB2_ERROR_INSIDE_PARENT_WRAPS
        ELSE IF member_rv # VB2_SUCCESS
        THEN member_rv
        ELSE inside_data_checks(parent_size, member_end_offs, data_offs,
                                data_end_offs, member_data_size)

\* member_offs + member_data_offset adds two ptrdiff_t: when the sum leaves
\* the range of ptrdiff_t the behaviour is undefined.  A build either wraps
\* the sum or traps, and a call that traps does not return.
SignedOverflowBuilds == {"wraps", "traps"}

SIGNED_OVERFLOW_TRAP == "SIGNED_OVERFLOW_TRAP"

data_offs_overflows(parent, member, member_data_offset) ==
    vb2_offset_of(parent, member) + member_data_offset \notin Signed

\* The parent addresses tried: one low, one close to the end of memory.
Parents == {1, PtrMod - 4}

EcQuiet ==
    /\ ctx_flags = {}
    /\ gbb_flags = {}
    /\ sd = [flags |-> {}, status |-> {}, recovery_reason |-> VB2_RECOVERY_NOT_REQUESTED]
    /\ nv = [recovery_request |-> VB2_RECOVERY_NOT_REQUESTED, try_ro_sync |-> 0,
             display_request |-> 0]
    /\ ec = [in_rw |-> FALSE, ro |-> ExpectedHash, rw |-> [a \in {0} |-> ExpectedHash],
             active |-> 0]
    /\ pc = "idle"
    /\ rv = Running
    /\ phase1_rv = VB2_SUCCESS
    /\ need_wait_screen = FALSE
    /\ num_tries = 0
    /\ recovery_request = VB2_RECOVERY_NOT_REQUESTED
    /\ log = << >>
    /\ entry = [nv |-> nv, sd |-> sd]
    /\ boots = 1
    /\ calls = 0

InitInside ==
    /\ EcQuiet
    /\ cmp = NotCalled
    /\ al = NotCalled
    /\ wb = NotCalled
    /\ vd = NotCalled
    /\ gscvd = NotCalled
    /\ ui = NotCalled
    /\ inside \in [pc : {"called"}, parent : Parents, parent_size : Unsigned,
                   member : Unsigned, member_size : Unsigned,
                   member_data_offset : Signed, member_data_size : Unsigned,
                   rv : {Running}]

call_verify_member_inside ==
    /\ inside.pc = "called"
    /\ \E build \in SignedOverflowBuilds :
         inside' = [inside EXCEPT
            !.pc = "returned",
            !.rv = IF /\ build = "traps"
                      /\ data_offs_overflows(inside.parent, inside.member,
                                             inside.member_data_offset)
                   THEN SIGNED_OVERFLOW_TRAP
                   ELSE vb2_verify_member_inside(inside.parent, inside.parent_size,
                           inside.member, inside.member_size,
                           inside.member_data_offset, inside.member_data_size)]
    /\ UNCHANGED other_than_inside

NextInside == call_verify_member_inside

SpecInside == InitInside /\ [][NextInside]_vars

(***************************************************************************)
(* The checks of vb2_verify_member_inside read off the arguments of the    *)
(* call, in the order in which they are made.                              *)
(***************************************************************************)
MemberOffs == ToSigned(inside.member - inside.parent)

MemberEndOffs == ToSigned(MemberOffs + inside.member_size)

DataOffs == ToSigned(MemberOffs + inside.member_data_offset)

DataEndOffs == ToSigned(DataOffs + inside.member_data_size)

Beyond(offs) == offs < 0 \/ offs > inside.parent_size

InsideChecks ==
    << [fails |-> inside.parent + inside.parent_size >= PtrMod,
        error |-> VB2_ERROR_INSIDE_PARENT_WRAPS],
       [fails |-> MemberEndOffs < MemberOffs,
        error |-> VB2_ERROR_INSIDE_MEMBER_WRAPS],
       [fails |-> Beyond(MemberOffs) \/ ToUnsigned(MemberEndOffs) > inside.parent_size,
        error |-> VB2_ERROR_INSIDE_MEMBER_OUTSIDE],
       [fails |-> inside.member_data_size # 0 /\ DataOffs < MemberEndOffs,
        error |-> VB2_ERROR_INSIDE_DATA_OVERLAP],
       [fails |-> DataEndOffs < DataOffs,
        error |-> VB2_ERROR_INSIDE_DATA_WRAPS],
       [fails |-> Beyond(DataOffs) \/ ToUnsigned(DataEndOffs) > inside.parent_size,
        error |-> VB2_ERROR_INSIDE_DATA_OUTSIDE] >>

Failing == {k \in DOMAIN InsideChecks : InsideChecks[k].fails}

FirstFailing ==
    IF Failing = {} THEN VB2_SUCCESS
    ELSE InsideChecks[CHOOSE k \in Failing : \A m \in Failing : k <= m].error

InsideReturned == inside.pc = "returned" /\ inside.rv # SIGNED_OVERFLOW_TRAP

(***************************************************************************)
(* C17: for every combination of parent size, member offset, member size,  *)
(* data offset and data size, a call of vb2_verify_member_inside that      *)
(* returns, returns the error of the first failing check in the order      *)
(* parent wraps, member wraps, member outside, data overlaps member (only  *)
(* with a non-zero data size), data wraps, data outside; it returns        *)
(* success exactly when none fails.                                        *)
(***************************************************************************)
C17_FirstFailingCheck ==
    InsideReturned =>
       /\ inside.rv = FirstFailing
       /\ (inside.rv = VB2_SUCCESS) = (Failing = {})

\* A call in which the member wraps and is also outside the parent, and the
\* data is outside too: the first of the failing checks is reported.
C17_Witness ==
    /\ InsideReturned
    /\ {2, 3, 6} \subseteq Failing
    /\ 1 \notin Failing
    /\ inside.rv = VB2_ERROR_INSIDE_MEMBER_WRAPS

(***************************************************************************)
(* C18: vb2_verify_member_inside returns success only if, in unbounded     *)
(* arithmetic, the parent range does not wrap, the member range lies       *)
(* inside the parent, the data range lies inside the parent, and a         *)
(* non-empty data range starts at or after the end of the member.          *)
(***************************************************************************)
C18_SuccessIsSound ==
    (inside.pc = "returned" /\ inside.rv = VB2_SUCCESS) =>
       LET parent_end == inside.parent + inside.parent_size
           member_end == inside.member + inside.member_size
           data == inside.member + inside.member_data_offset
           data_end == data + inside.member_data_size
       IN  /\ parent_end < PtrMod
           /\ inside.parent <= inside.member
           /\ member_end <= parent_end
           /\ inside.parent <= data
           /\ data_end <= parent_end
           /\ inside.member_data_size > 0 => member_end <= data

\* An accepted call whose member and data fill the parent up to its end.
C18_Witness ==
    /\ inside.pc = "returned"
    /\ inside.rv = VB2_SUCCESS
    /\ inside.member_size > 0
    /\ inside.member_data_size > 0
    /\ inside.member > inside.parent
    /\ inside.member + inside.member_data_offset + inside.member_data_size
          = inside.parent + inside.parent_size

(***************************************************************************)
(* 2common.c, vb2_safe_memcmp statement by statement.  cmp holds the       *)
(* arguments (s1, s2, and n, the size passed), the locals (size as the     *)
(* loop counts it down, us the position of us1 and us2, result), the       *)
(* number of loop bodies and of statements executed, and the value         *)
(* returned.                                                               *)
(***************************************************************************)
BufLen == 3

MemBytes == {0, 1, 255}

Buffers == [1..BufLen -> MemBytes]

InitMemcmp ==
    /\ EcQuiet
    /\ inside = NotCalled
    /\ al = NotCalled
    /\ wb = NotCalled
    /\ vd = NotCalled
    /\ gscvd = NotCalled
    /\ ui = NotCalled
    /\ cmp \in [pc : {"called"}, s1 : Buffers, s2 : Buffers, n : 0..BufLen,
                size : 0..BufLen, us : {1}, result : {0}, iterations : {0},
                steps : {0}, rv : {Running}]
    /\ cmp.size = cmp.n

\* if (0 == size) return 0;
safe_memcmp_entry ==
    /\ cmp.pc = "called"
    /\ cmp' = IF 0 = cmp.size
              THEN [cmp EXCEPT !.pc = "returned", !.rv = 0, !.steps = @ + 1]
              ELSE [cmp EXCEPT !.pc = "while", !.steps = @ + 1]
    /\ UNCHANGED other_than_cmp

\* One test of the loop condition and, when it holds, one loop body.  The
\* value the last size-- leaves in size is not read again.
safe_memcmp_while ==
    /\ cmp.pc = "while"
    /\ cmp' = IF safe_memcmp_continue(cmp.size, cmp.result)
              THEN [cmp EXCEPT
                      !.size = @ - 1,
                      !.result = safe_memcmp_accumulate(@, cmp.s1[cmp.us], cmp.s2[cmp.us]),
                      !.us = @ + 1,
                      !.iterations = @ + 1,
                      !.steps = @ + 1]
              ELSE [cmp EXCEPT !.pc = "return", !.steps = @ + 1]
    /\ UNCHANGED other_than_cmp

\* return result != 0;
safe_memcmp_return ==
    /\ cmp.pc = "return"
    /\ cmp' = [cmp EXCEPT !.pc = "returned",
                          !.rv = IF cmp.result # 0 THEN 1 ELSE 0,
                          !.steps = @ + 1]
    /\ UNCHANGED other_than_cmp

NextMemcmp ==
    \/ safe_memcmp_entry
    \/ safe_memcmp_while
    \/ safe_memcmp_return

SpecMemcmp == InitMemcmp /\ [][NextMemcmp]_vars

FirstBytesEqual == \A i \in 1..cmp.n : cmp.s1[i] = cmp.s2[i]

(***************************************************************************)
(* C19: vb2_safe_memcmp(s1, s2, size) returns 0 if and only if the first   *)
(* size bytes of s1 and s2 are equal, a non-zero value otherwise, and 0    *)
(* for size 0 whatever the buffers hold.                                   *)
(***************************************************************************)
C19_ZeroIffEqual ==
    cmp.pc = "returned" =>
       /\ (cmp.rv = 0) = FirstBytesEqual
       /\ cmp.rv \in {0, 1}
       /\ cmp.n = 0 => cmp.rv = 0
       /\ cmp.rv = vb2_safe_memcmp(cmp.s1, cmp.s2, cmp.n)

\* Buffers that differ in their first byte and agree in the last compared
\* one: the difference is not forgotten.
C19_Witness ==
    /\ cmp.pc = "returned"
    /\ cmp.n >= 2
    /\ cmp.s1[1] # cmp.s2[1]
    /\ cmp.s1[cmp.n] = cmp.s2[cmp.n]
    /\ cmp.rv = 1

\* Where vb2_safe_memcmp is after k statements when called with size n:
\* position, size left, bytes read, loop bodies done.
ControlAfter(n, k) ==
    IF k = 0 THEN <<"called", n, 1, 0>>
    ELSE IF n = 0 THEN <<"returned", 0, 1, 0>>
    ELSE IF k <= n + 1 THEN <<"while", n - (k - 1), k, k - 1>>
    ELSE IF k = n + 2 THEN <<"return", 0, n + 1, n>>
    ELSE <<"returned", 0, n + 1, n>>

(***************************************************************************)
(* C20: the steps vb2_safe_memcmp executes depend only on size: after any  *)
(* number of statements its position, the size left and the number of      *)
(* loop bodies done are the same for all buffers of that size, the loop    *)
(* body runs exactly size times with no early exit, and the result is      *)
(* decided only after the last byte.                                       *)
(***************************************************************************)
C20_StepsDependOnSizeOnly ==
    cmp.pc # "none" =>
       /\ <<cmp.pc, cmp.size, cmp.us, cmp.iterations>> = ControlAfter(cmp.n, cmp.steps)
       /\ cmp.pc = "returned" => cmp.iterations = cmp.n
       /\ cmp.pc # "returned" => cmp.rv = Running

\* A comparison that met a difference in the first of three bytes and
\* still read all of them.
C20_Witness ==
    /\ cmp.pc = "returned"
    /\ cmp.n = 3
    /\ cmp.s1[1] # cmp.s2[1]
    /\ cmp.iterations = 3
    /\ cmp.steps = 6

(***************************************************************************)
(* 2common.c, vb2_align.  m is the memory the call works on, *ptr and      *)
(* *size; the value is that memory after the call with the value           *)
(* returned.  Addresses and sizes are below 2^AlignBits.                   *)
(***************************************************************************)
AlignBits == 4

AlignValues == 0..(2 ^ AlignBits - 1)

PowersOfTwo == {2 ^ k : k \in 0..AlignBits}

VB2_ERROR_ALIGN_BIGGER_THAN_SIZE == "VB2_ERROR_ALIGN_BIGGER_THAN_SIZE"
VB2_ERROR_ALIGN_SIZE == "VB2_ERROR_ALIGN_SIZE"

\* uintptr_t offs = p & (align - 1);
align_offs_masked_by_align(p, align) == BitOp("and", p, align, AlignBits + 1)

align_offs(p, align) == BitOp("and", p, align - 1, AlignBits + 1)

vb2_align(m, align, want_size) ==
    LET p == m.ptr
        offs == align_offs(p, align)
        offs1 == align - offs
        m1 == IF offs # 0
              THEN [ptr |-> m.ptr + offs1, size |-> m.size - offs1]
              ELSE m
    IN  IF offs # 0 /\ m.size < offs1
        THEN [ptr |-> m.ptr, size |-> m.size, rv |-> VB2_ERROR_ALIGN_BIGGER_THAN_SIZE]
        ELSE IF m1.size < want_size
        THEN [ptr |-> m1.ptr, size |-> m1.size, rv |-> VB2_ERROR_ALIGN_SIZE]
        ELSE [ptr |-> m1.ptr, size |-> m1.size, rv |-> VB2_SUCCESS]

InitAlign ==
    /\ EcQuiet
    /\ inside = NotCalled
    /\ cmp = NotCalled
    /\ wb = NotCalled
    /\ vd = NotCalled
    /\ gscvd = NotCalled
    /\ ui = NotCalled
    /\ al \in [pc : {"called"}, ptr0 : AlignValues, size0 : AlignValues,
               align : PowersOfTwo, want_size : AlignValues,
               ptr : AlignValues, size : AlignValues, rv : {Running}]
    /\ al.ptr = al.ptr0
    /\ al.size = al.size0

call_vb2_align ==
    /\ al.pc = "called"
    /\ LET r == vb2_align([ptr |-> al.ptr, size |-> al.size], al.align, al.want_size)
       IN  al' = [al EXCEPT !.pc = "returned", !.ptr = r.ptr, !.size = r.size,
                            !.rv = r.rv]
    /\ UNCHANGED other_than_al

NextAlign == call_vb2_align

SpecAlign == InitAlign /\ [][NextAlign]_vars

\* The bytes from ptr0 to the next multiple of align.
BytesToAlign == (al.align - (al.ptr0 % al.align)) % al.align

(***************************************************************************)
(* C28: vb2_align(ptr, size, align, want_size) with align a power of two.  *)
(* With k the bytes ptr needs to reach the next multiple of align: if      *)
(* k > 0 and size < k it returns alignment-bigger-than-size and leaves     *)
(* ptr and size unchanged; otherwise it advances ptr by k and reduces      *)
(* size by k, then returns the alignment-size error if the size left is    *)
(* below want_size and success otherwise; on success ptr is a multiple of  *)
(* align, size is at least want_size, and ptr + size is unchanged.         *)
(***************************************************************************)
C28_Align ==
    al.pc = "returned" =>
       LET k == BytesToAlign
       IN  IF k > 0 /\ al.size0 < k
           THEN /\ al.rv = VB2_ERROR_ALIGN_BIGGER_THAN_SIZE
                /\ al.ptr = al.ptr0
                /\ al.size = al.size0
           ELSE /\ al.ptr = al.ptr0 + k
                /\ al.size = al.size0 - k
                /\ al.rv = IF al.size < al.want_size
                           THEN VB2_ERROR_ALIGN_SIZE ELSE VB2_SUCCESS
                /\ al.rv = VB2_SUCCESS =>
                     /\ al.ptr % al.align = 0
                     /\ al.size >= al.want_size
                     /\ al.ptr + al.size = al.ptr0 + al.size0

\* An unaligned pointer moved up by three bytes with room to spare.
C28_Witness ==
    /\ al.pc = "returned"
    /\ al.rv = VB2_SUCCESS
    /\ al.align = 4
    /\ al.ptr = al.ptr0 + 3
    /\ al.want_size > 0
    /\ al.size > al.want_size

(***************************************************************************)
(* 2common.c, the work buffer: vb2_workbuf_init, vb2_workbuf_alloc,        *)
(* vb2_workbuf_realloc and vb2_workbuf_free.  A work buffer w is its top   *)
(* w.buf and the bytes left w.size.  The sizes are uint32_t, here WbBits   *)
(* wide; addresses do not wrap, the buffer being a region of real memory.  *)
(***************************************************************************)
WbBits == 6

WbMod == 2 ^ WbBits

\* What an assignment to a uint32_t keeps of a value.
ToUint32(v) == v % WbMod

VB2_WORKBUF_ALIGN == 16

NULL == 0

\* Rounds v up to the next multiple of VB2_WORKBUF_ALIGN.
vb2_wb_round_up(v) ==
    ((v + VB2_WORKBUF_ALIGN - 1) \div VB2_WORKBUF_ALIGN) * VB2_WORKBUF_ALIGN

vb2_workbuf_init(buf, size) ==
    LET a == vb2_align([ptr |-> buf, size |-> size], VB2_WORKBUF_ALIGN, 0)
    IN  [buf |-> a.ptr, size |-> IF a.rv # VB2_SUCCESS THEN 0 ELSE a.size]

\* The value is the work buffer after the call with the pointer returned.
vb2_workbuf_alloc_no_round_up(w, size) ==
    IF size > w.size
    THEN [buf |-> w.buf, size |-> w.size, ret |-> NULL]
    ELSE [buf |-> w.buf + size, size |-> w.size - size, ret |-> w.buf]

vb2_workbuf_alloc(w, size) ==
    LET ptr == w.buf
        size1 == ToUint32(vb2_wb_round_up(size))
    IN  IF size1 > w.size
        THEN [buf |-> w.buf, size |-> w.size, ret |-> NULL]
        ELSE [buf |-> w.buf + size1, size |-> w.size - size1, ret |-> ptr]

vb2_workbuf_free_no_round_up(w, size) == [buf |-> w.buf - size, size |-> ToUint32(w.size + size)]

vb2_workbuf_free(w, size) == [buf |-> w.buf - ToUint32(vb2_wb_round_up(size)), size |-> ToUint32(w.size + ToUint32(vb2_wb_round_up(size)))]

vb2_workbuf_realloc(w, oldsize, newsize) ==
    LET freed == vb2_workbuf_free(w, oldsize)
    IN  vb2_workbuf_alloc([buf |-> freed.buf, size |-> freed.size], newsize)

\* The buffers handed to vb2_workbuf_init: aligned and not, with lengths
\* that reach the alignment and lengths that do not.
WbBufs == {16, 18, 20, 31}

WbLens == {0, 5, WbMod - 16, WbMod - 1}

\* The sizes asked for: small ones, ones the buffer cannot hold, and ones
\* within VB2_WORKBUF_ALIGN of the largest uint32_t.
WbSizes == {0, 1, 6, 16, 21, 22, 33, WbMod - 8, WbMod - 1}

\* The allocations a caller keeps at one time.
MaxLive == 2

NoOp == [op |-> "none", n |-> 0, old_n |-> 0, ret |-> NULL,
         before |-> [buf |-> 0, size |-> 0], after |-> [buf |-> 0, size |-> 0]]

WbOp(op, n, old_n, ret, before, after) ==
    [op |-> op, n |-> n, old_n |-> old_n, ret |-> ret,
     before |-> [buf |-> before.buf, size |-> before.size],
     after |-> [buf |-> after.buf, size |-> after.size]]

InitWorkbuf ==
    /\ EcQuiet
    /\ inside = NotCalled
    /\ cmp = NotCalled
    /\ al = NotCalled
    /\ vd = NotCalled
    /\ gscvd = NotCalled
    /\ ui = NotCalled
    /\ wb = [pc |-> "uninit", buf |-> 0, size |-> 0, live |-> << >>,
             last |-> NoOp, prev |-> NoOp,
             region |-> [buf |-> 0, size |-> 0], aligned |-> [buf |-> 0, size |-> 0]]

call_workbuf_init(buf, size) ==
    /\ wb.pc = "uninit"
    /\ LET w == vb2_workbuf_init(buf, size)
       IN  wb' = [wb EXCEPT !.pc = "ready", !.buf = w.buf, !.size = w.size,
                            !.last = WbOp("init", size, 0, NULL,
                                           [buf |-> buf, size |-> size], w),
                            !.prev = wb.last,
                            !.region = [buf |-> buf, size |-> size],
                            !.aligned = [buf |-> w.buf, size |-> w.size]]
    /\ UNCHANGED other_than_wb

call_workbuf_alloc(size) ==
    /\ wb.pc = "ready"
    /\ Len(wb.live) < MaxLive
    /\ LET w == vb2_workbuf_alloc(wb, size)
       IN  wb' = [wb EXCEPT !.buf = w.buf, !.size = w.size,
                            !.live = IF w.ret # NULL THEN <<size>> \o wb.live
                                     ELSE wb.live,
                            !.last = WbOp("alloc", size, 0, w.ret, wb, w),
                            !.prev = wb.last]
    /\ UNCHANGED other_than_wb

\* The callers free in LIFO order, each allocation with the size it was
\* allocated with.
call_workbuf_free ==
    /\ wb.pc = "ready"
    /\ wb.live # << >>
    /\ LET size == Head(wb.live)
           w == vb2_workbuf_free(wb, size)
       IN  wb' = [wb EXCEPT !.buf = w.buf, !.size = w.size,
                            !.live = Tail(wb.live),
                            !.last = WbOp("free", size, 0, NULL, wb, w),
                            !.prev = wb.last]
    /\ UNCHANGED other_than_wb

call_workbuf_realloc(newsize) ==
    /\ wb.pc = "ready"
    /\ wb.live # << >>
    /\ LET oldsize == Head(wb.live)
           w == vb2_workbuf_realloc(wb, oldsize, newsize)
       IN  wb' = [wb EXCEPT !.buf = w.buf, !.size = w.size,
                            !.live = IF w.ret # NULL
                                     THEN <<newsize>> \o Tail(wb.live)
                                     ELSE Tail(wb.live),
                            !.last = WbOp("realloc", newsize, oldsize, w.ret, wb, w),
                            !.prev = wb.last]
    /\ UNCHANGED other_than_wb

NextWorkbuf ==
    \/ \E buf \in WbBufs, size \in WbLens : call_workbuf_init(buf, size)
    \/ \E size \in WbSizes : call_workbuf_alloc(size)
    \/ call_workbuf_free
    \/ \E newsize \in WbSizes : call_workbuf_realloc(newsize)

SpecWorkbuf == InitWorkbuf /\ [][NextWorkbuf]_vars

\* The bytes from the buffer given to vb2_workbuf_init to the next multiple
\* of VB2_WORKBUF_ALIGN.
WbBytesSkipped(op) ==
    (VB2_WORKBUF_ALIGN - (op.before.buf % VB2_WORKBUF_ALIGN)) % VB2_WORKBUF_ALIGN

(***************************************************************************)
(* C27: vb2_workbuf_init(buf, len) sets the top to the first ALIGN-aligned *)
(* address at or after buf and the size to len minus the bytes skipped;    *)
(* if len is smaller than the bytes needed to reach alignment the size     *)
(* becomes 0, so that no allocation of non-zero size can succeed.          *)
(***************************************************************************)
C27_InitAligns ==
    wb.last.op = "init" =>
       LET k == WbBytesSkipped(wb.last)
       IN  IF wb.last.n < k
           THEN wb.last.after.size = 0
           ELSE /\ wb.last.after.buf = wb.last.before.buf + k
                /\ wb.last.after.buf % VB2_WORKBUF_ALIGN = 0
                /\ wb.last.after.size = wb.last.n - k

C27_Init ==
    /\ C27_InitAligns
    /\ (/\ wb.prev.op = "init"
        /\ wb.prev.n < WbBytesSkipped(wb.prev)
        /\ wb.last.op = "alloc"
        /\ wb.last.n # 0) => wb.last.ret = NULL

(***************************************************************************)
(* C24: vb2_workbuf_alloc(n) returns the current top, advances the top by  *)
(* round_up(n, ALIGN) and reduces the remaining size by the same amount    *)
(* when round_up(n, ALIGN) does not exceed the remaining size; otherwise   *)
(* it returns NULL and leaves the work buffer unchanged.                   *)
(***************************************************************************)
C24_Alloc ==
    wb.last.op = "alloc" =>
       LET r == vb2_wb_round_up(wb.last.n)
       IN  IF r <= wb.last.before.size
           THEN /\ wb.last.ret = wb.last.before.buf
                /\ wb.last.after.buf = wb.last.before.buf + r
                /\ wb.last.after.size = wb.last.before.size - r
           ELSE /\ wb.last.ret = NULL
                /\ wb.last.after = wb.last.before

(***************************************************************************)
(* C25: for every work buffer state and every n for which                  *)
(* vb2_workbuf_alloc(n) succeeds, a following vb2_workbuf_free(n) restores *)
(* the top pointer and the remaining size to their values before the       *)
(* alloc.                                                                  *)
(***************************************************************************)
C25_FreeReversesAlloc ==
    (/\ wb.prev.op = "alloc"
     /\ wb.prev.ret # NULL
     /\ wb.last.op = "free"
     /\ wb.last.n = wb.prev.n) =>
        /\ wb.last.after = wb.prev.before
        /\ wb.buf = wb.prev.before.buf
        /\ wb.size = wb.prev.before.size

\* 22 bytes allocated, which moved the top by 32, and freed again.
C25_Witness ==
    /\ wb.prev.op = "alloc"
    /\ wb.prev.n = 22
    /\ wb.prev.ret # NULL
    /\ wb.prev.after.buf = wb.prev.before.buf + 32
    /\ wb.last.op = "free"
    /\ wb.last.n = 22
    /\ wb.buf = wb.prev.before.buf

(***************************************************************************)
(* C26: if p was returned by the most recent vb2_workbuf_alloc(old_n),     *)
(* then vb2_workbuf_realloc(old_n, new_n) returns p whenever it succeeds   *)
(* and leaves the top at p + round_up(new_n, ALIGN); it returns NULL when  *)
(* round_up(new_n, ALIGN) exceeds the space available from p, and then     *)
(* the old allocation has been released: the top is back at p.             *)
(***************************************************************************)
C26_Realloc ==
    (/\ wb.prev.op = "alloc"
     /\ wb.prev.ret # NULL
     /\ wb.last.op = "realloc"
     /\ wb.last.old_n = wb.prev.n) =>
        LET p == wb.prev.ret
            r == vb2_wb_round_up(wb.last.n)
        IN  /\ wb.last.ret # NULL =>
                 /\ wb.last.ret = p
                 /\ wb.last.after.buf = p + r
            /\ r > wb.prev.before.size =>
                 /\ wb.last.ret = NULL
                 /\ wb.last.after.buf = p

(***************************************************************************)
(* C39: for every 32-bit n, a non-NULL result of vb2_workbuf_alloc(n)      *)
(* means that at least n bytes were reserved: the remaining size before    *)
(* the call was at least n and the top advanced by at least n; a request   *)
(* whose rounding up to ALIGN wraps modulo 2^32 does not succeed.          *)
(***************************************************************************)
C39_AllocReserves ==
    wb.last.op = "alloc" =>
       /\ wb.last.ret # NULL =>
            /\ wb.last.before.size >= wb.last.n
            /\ wb.last.after.buf - wb.last.before.buf >= wb.last.n
       /\ vb2_wb_round_up(wb.last.n) >= WbMod => wb.last.ret = NULL

\* vb2_workbuf_init was given a region that reaches the alignment.
WbRegionAligned ==
    /\ wb.pc = "ready"
    /\ wb.region.size >= (wb.aligned.buf - wb.region.buf)
    /\ wb.aligned.buf % VB2_WORKBUF_ALIGN = 0

(***************************************************************************)
(* C40: after vb2_workbuf_init on a region large enough to be aligned and  *)
(* any sequence of alloc, realloc and free calls in strict LIFO order,     *)
(* top + remaining size equals the end of the region, the top is           *)
(* ALIGN-aligned and not below the aligned base, and the remaining size    *)
(* does not exceed the initial aligned size.                               *)
(***************************************************************************)
C40_WorkbufInvariants ==
    WbRegionAligned =>
       /\ wb.buf + wb.size = wb.region.buf + wb.region.size
       /\ wb.buf % VB2_WORKBUF_ALIGN = 0
       /\ wb.buf >= wb.aligned.buf
       /\ wb.size <= wb.aligned.size

\* Two allocations are outstanding in an unaligned region after one was
\* resized and one freed.
C40_Witness ==
    /\ WbRegionAligned
    /\ wb.region.buf % VB2_WORKBUF_ALIGN # 0
    /\ Len(wb.live) = 2
    /\ wb.prev.op = "free"
    /\ wb.last.op = "alloc"
    /\ wb.last.ret # NULL
    /\ wb.buf > wb.aligned.buf + VB2_WORKBUF_ALIGN

(***************************************************************************)
(* 2common.c, vb2_verify_digest and vb2_verify_data.  The RSA and hashing  *)
(* primitives and the hardware crypto callbacks are the platform's: each   *)
(* call made is recorded in order with its size argument and with the      *)
(* reply e holds for it.  The value of either operator is the value        *)
(* returned with the calls made.                                           *)
(***************************************************************************)
VB2_ERROR_VDATA_SIG_SIZE == "VB2_ERROR_VDATA_SIG_SIZE"
VB2_ERROR_VDATA_NOT_ENOUGH_DATA == "VB2_ERROR_VDATA_NOT_ENOUGH_DATA"
VB2_ERROR_VDATA_DIGEST_SIZE == "VB2_ERROR_VDATA_DIGEST_SIZE"
VB2_ERROR_VDATA_WORKBUF_DIGEST == "VB2_ERROR_VDATA_WORKBUF_DIGEST"
VB2_ERROR_EX_HWCRYPTO_UNSUPPORTED == "VB2_ERROR_EX_HWCRYPTO_UNSUPPORTED"
VB2_ERROR_RSA_PADDING == "VB2_ERROR_RSA_PADDING"
VB2_ERROR_SHA_INIT_ALGORITHM == "VB2_ERROR_SHA_INIT_ALGORITHM"

SigAlgs == {"VB2_SIG_RSA1024", "VB2_SIG_RSA2048", "VB2_SIG_INVALID"}

HashAlgs == {"VB2_HASH_SHA1", "VB2_HASH_SHA256", "VB2_HASH_INVALID"}

\* The signature size in bytes of a signature algorithm, 0 for none.
vb2_rsa_sig_size(sig_alg) ==
    CASE sig_alg = "VB2_SIG_RSA1024" -> 128
      [] sig_alg = "VB2_SIG_RSA2048" -> 256
      [] OTHER -> 0

\* The digest size in bytes of a hash algorithm, 0 for none.
vb2_digest_size(hash_alg) ==
    CASE hash_alg = "VB2_HASH_SHA1" -> 20
      [] hash_alg = "VB2_HASH_SHA256" -> 32
      [] OTHER -> 0

\* The replies of the platform.
HwReplies == {VB2_SUCCESS, VB2_ERROR_EX_HWCRYPTO_UNSUPPORTED, VB2_ERROR_UNKNOWN}

RsaReplies == {VB2_SUCCESS, VB2_ERROR_RSA_PADDING}

DigestReplies == {VB2_SUCCESS, VB2_ERROR_SHA_INIT_ALGORITHM}

Envs == [hw_rsa : HwReplies, sw_rsa : RsaReplies, hw_init : HwReplies,
         hw_extend : HwReplies, hw_finalize : HwReplies, sw_digest : DigestReplies]

VCall(fn, size, reply) == [fn |-> fn, size |-> size, reply |-> reply]

\* if (sig->sig_size != vb2_rsa_sig_size(key->sig_alg))
sig_size_wrong_if_smaller(sig, key) == sig.sig_size < vb2_rsa_sig_size(key.sig_alg)

sig_size_wrong(sig, key) == sig.sig_size # vb2_rsa_sig_size(key.sig_alg)

\* The hardware reply after which the software does the work.
hw_falls_through_on_any_error(reply) == reply # VB2_SUCCESS

hw_falls_through(reply) == reply = VB2_ERROR_EX_HWCRYPTO_UNSUPPORTED

vb2_verify_digest(key, sig, w, e) ==
    LET hw == VCall("vb2ex_hwcrypto_rsa_verify_digest", 0, e.hw_rsa)
        sw == VCall("vb2_rsa_verify_digest", w.size, e.sw_rsa)
    IN  IF sig_size_wrong(sig, key)
        THEN [rv |-> VB2_ERROR_VDATA_SIG_SIZE, calls |-> << >>]
        ELSE IF key.allow_hwcrypto
        THEN IF ~hw_falls_through(e.hw_rsa)
             THEN [rv |-> e.hw_rsa, calls |-> <<hw>>]
             ELSE [rv |-> e.sw_rsa, calls |-> <<hw, sw>>]
        ELSE [rv |-> e.sw_rsa, calls |-> <<sw>>]

\* The length hashed: sig->data_size.
vdata_hashed_size_supplied(size, sig) == size

vdata_hashed_size(size, sig) == sig.data_size

\* The digest step of vb2_verify_data, lines 209 to 228; VB2_TRY returns
\* what its call returned unless that is VB2_SUCCESS.
vdata_digest(size, sig, key, e) ==
    LET n == vdata_hashed_size(size, sig)
        init == VCall("vb2ex_hwcrypto_digest_init", n, e.hw_init)
        extend == VCall("vb2ex_hwcrypto_digest_extend", n, e.hw_extend)
        finalize == VCall("vb2ex_hwcrypto_digest_finalize",
                          vb2_digest_size(key.hash_alg), e.hw_finalize)
        buffer == VCall("vb2_digest_buffer", n, e.sw_digest)
    IN  IF key.allow_hwcrypto
        THEN IF e.hw_init = VB2_SUCCESS
             THEN IF e.hw_extend # VB2_SUCCESS
                  THEN [rv |-> e.hw_extend, calls |-> <<init, extend>>]
                  ELSE [rv |-> e.hw_finalize, calls |-> <<init, extend, finalize>>]
             ELSE IF hw_falls_through(e.hw_init)
             THEN [rv |-> e.sw_digest, calls |-> <<init, buffer>>]
             ELSE [rv |-> e.hw_init, calls |-> <<init>>]
        ELSE [rv |-> e.sw_digest, calls |-> <<buffer>>]

vb2_verify_data(size, sig, key, w, e) ==
    LET digest_size == vb2_digest_size(key.hash_alg)
        wblocal == vb2_workbuf_alloc(w, digest_size)
        d == vdata_digest(size, sig, key, e)
        v == vb2_verify_digest(key, sig, [buf |-> wblocal.buf, size |-> wblocal.size], e)
    IN  IF sig.data_size > size
        THEN [rv |-> VB2_ERROR_VDATA_NOT_ENOUGH_DATA, calls |-> << >>]
        ELSE IF digest_size = 0
        THEN [rv |-> VB2_ERROR_VDATA_DIGEST_SIZE, calls |-> << >>]
        ELSE IF wblocal.ret = NULL
        THEN [rv |-> VB2_ERROR_VDATA_WORKBUF_DIGEST, calls |-> << >>]
        ELSE IF d.rv # VB2_SUCCESS
        THEN d
        ELSE [rv |-> v.rv,
              calls |-> d.calls \o <<VCall("vb2_verify_digest", 0, v.rv)>> \o v.calls]

\* The inputs tried.
SigSizes == {0, 128, 256}

DataSizes == 0..2

VdWorkbufs == {[buf |-> 16, size |-> s] : s \in {0, 16, 32}}

InitVerify ==
    /\ EcQuiet
    /\ inside = NotCalled
    /\ cmp = NotCalled
    /\ al = NotCalled
    /\ wb = NotCalled
    /\ gscvd = NotCalled
    /\ ui = NotCalled
    /\ vd \in [pc : {"called"}, fn : {"vb2_verify_digest", "vb2_verify_data"},
               key : [sig_alg : SigAlgs, hash_alg : HashAlgs, allow_hwcrypto : BOOLEAN],
               sig : [sig_size : SigSizes, data_size : DataSizes],
               size : DataSizes, wb : VdWorkbufs,
               rv : {Running}, calls : {<< >>}]

call_verify_digest(e) ==
    /\ vd.pc = "called"
    /\ vd.fn = "vb2_verify_digest"
    /\ LET r == vb2_verify_digest(vd.key, vd.sig, vd.wb, e)
       IN  vd' = [vd EXCEPT !.pc = "returned", !.rv = r.rv, !.calls = r.calls]
    /\ UNCHANGED other_than_vd

call_verify_data(e) ==
    /\ vd.pc = "called"
    /\ vd.fn = "vb2_verify_data"
    /\ LET r == vb2_verify_data(vd.size, vd.sig, vd.key, vd.wb, e)
       IN  vd' = [vd EXCEPT !.pc = "returned", !.rv = r.rv, !.calls = r.calls]
    /\ UNCHANGED other_than_vd

NextVerify ==
    \/ \E e \in Envs : call_verify_digest(e)
    \/ \E e \in Envs : call_verify_data(e)

SpecVerify == InitVerify /\ [][NextVerify]_vars

HwRsaFn == "vb2ex_hwcrypto_rsa_verify_digest"

SwRsaFn == "vb2_rsa_verify_digest"

HwDigestFns == {"vb2ex_hwcrypto_digest_init", "vb2ex_hwcrypto_digest_extend",
                "vb2ex_hwcrypto_digest_finalize"}

SwDigestFn == "vb2_digest_buffer"

VdCalled(fns) == {i \in DOMAIN vd.calls : vd.calls[i].fn \in fns}

\* vb2_verify_digest ran, called directly or from vb2_verify_data.
VerifyDigestRan ==
    vd.fn = "vb2_verify_digest" \/ VdCalled({"vb2_verify_digest"}) # {}

VerifyDigestResult ==
    IF vd.fn = "vb2_verify_digest" THEN vd.rv
    ELSE vd.calls[CHOOSE i \in VdCalled({"vb2_verify_digest"}) : TRUE].reply

(***************************************************************************)
(* C21: vb2_verify_digest returns the wrong-signature-size error whenever  *)
(* the signature's size differs from the size expected for the key's       *)
(* signature algorithm, and in that case neither the hardware nor the      *)
(* software RSA verification is invoked.                                   *)
(***************************************************************************)
C21_SigSize ==
    (/\ vd.pc = "returned"
     /\ VerifyDigestRan
     /\ vd.sig.sig_size # vb2_rsa_sig_size(vd.key.sig_alg)) =>
        /\ VerifyDigestResult = VB2_ERROR_VDATA_SIG_SIZE
        /\ VdCalled({HwRsaFn, SwRsaFn}) = {}

\* A 256-byte signature for a 1024-bit key, which allows the hardware.
C21_Witness ==
    /\ vd.pc = "returned"
    /\ vd.fn = "vb2_verify_digest"
    /\ vd.key.sig_alg = "VB2_SIG_RSA1024"
    /\ vd.key.allow_hwcrypto
    /\ vd.sig.sig_size = 256
    /\ vd.rv = VB2_ERROR_VDATA_SIG_SIZE
    /\ vd.calls = << >>

(***************************************************************************)
(* C22: in vb2_verify_digest and in the digest step of vb2_verify_data the *)
(* hardware is invoked only when the key allows hardware crypto;           *)
(* 'unsupported' is the only hardware outcome that falls through to the    *)
(* software path, and any other hardware result (success or error) is      *)
(* returned verbatim without the software path being run; when the key     *)
(* forbids hardware crypto the hardware is never invoked.  In the digest   *)
(* step a hardware success is the result of the step: the software does    *)
(* not hash and vb2_verify_data goes on to vb2_verify_digest.              *)
(***************************************************************************)
C22_HwFallThrough ==
    vd.pc = "returned" =>
       /\ VdCalled(HwDigestFns \cup {HwRsaFn}) # {} => vd.key.allow_hwcrypto
       /\ ~vd.key.allow_hwcrypto => VdCalled(HwDigestFns \cup {HwRsaFn}) = {}
       /\ \A i \in VdCalled({SwRsaFn}) :
             vd.key.allow_hwcrypto =>
                /\ i > 1
                /\ vd.calls[i - 1].fn = HwRsaFn
                /\ vd.calls[i - 1].reply = VB2_ERROR_EX_HWCRYPTO_UNSUPPORTED
       /\ \A i \in VdCalled({SwDigestFn}) :
             vd.key.allow_hwcrypto =>
                /\ i > 1
                /\ vd.calls[i - 1].fn = "vb2ex_hwcrypto_digest_init"
                /\ vd.calls[i - 1].reply = VB2_ERROR_EX_HWCRYPTO_UNSUPPORTED
       /\ \A i \in VdCalled({HwRsaFn}) :
             IF vd.calls[i].reply = VB2_ERROR_EX_HWCRYPTO_UNSUPPORTED
             THEN i < Len(vd.calls) /\ vd.calls[i + 1].fn = SwRsaFn
             ELSE /\ i = Len(vd.calls)
                  /\ vd.rv = vd.calls[i].reply
                  /\ VerifyDigestResult = vd.calls[i].reply
       /\ \A i \in VdCalled(HwDigestFns) :
             IF vd.calls[i].reply = VB2_SUCCESS
             THEN VdCalled({SwDigestFn}) = {}
             ELSE IF /\ vd.calls[i].fn = "vb2ex_hwcrypto_digest_init"
                     /\ vd.calls[i].reply = VB2_ERROR_EX_HWCRYPTO_UNSUPPORTED
             THEN i < Len(vd.calls) /\ vd.calls[i + 1].fn = SwDigestFn
             ELSE /\ i = Len(vd.calls)
                  /\ vd.rv = vd.calls[i].reply
                  /\ VdCalled({SwDigestFn}) = {}

\* The hardware does not hash, the software does; the hardware RSA then
\* fails and its error is what vb2_verify_data returns.
C22_Witness ==
    /\ vd.pc = "returned"
    /\ vd.fn = "vb2_verify_data"
    /\ Len(vd.calls) = 4
    /\ vd.calls[1].fn = "vb2ex_hwcrypto_digest_init"
    /\ vd.calls[1].reply = VB2_ERROR_EX_HWCRYPTO_UNSUPPORTED
    /\ vd.calls[2].fn = SwDigestFn
    /\ vd.calls[4].fn = HwRsaFn
    /\ vd.calls[4].reply = VB2_ERROR_UNKNOWN
    /\ vd.rv = VB2_ERROR_UNKNOWN

(***************************************************************************)
(* C23: vb2_verify_data performs its checks in this order and returns the  *)
(* first failure without hashing or verifying anything: the signature's    *)
(* signed length exceeds the supplied data size (not-enough-data), the     *)
(* digest size of the key's hash algorithm is zero (digest-size error),    *)
(* the work buffer cannot hold the digest (workbuf-digest error); when     *)
(* they pass it hashes exactly the signed length of the data, not the      *)
(* supplied size, and then calls vb2_verify_digest.                        *)
(***************************************************************************)
C23_VerifyDataOrder ==
    (vd.pc = "returned" /\ vd.fn = "vb2_verify_data") =>
       IF vd.sig.data_size > vd.size
       THEN vd.rv = VB2_ERROR_VDATA_NOT_ENOUGH_DATA /\ vd.calls = << >>
       ELSE IF vb2_digest_size(vd.key.hash_alg) = 0
       THEN vd.rv = VB2_ERROR_VDATA_DIGEST_SIZE /\ vd.calls = << >>
       ELSE IF vb2_wb_round_up(vb2_digest_size(vd.key.hash_alg)) > vd.wb.size
       THEN vd.rv = VB2_ERROR_VDATA_WORKBUF_DIGEST /\ vd.calls = << >>
       ELSE /\ vd.calls # << >>
            /\ vd.calls[1].fn \in {"vb2ex_hwcrypto_digest_init", SwDigestFn}
            /\ \A i \in VdCalled({"vb2ex_hwcrypto_digest_init",
                                  "vb2ex_hwcrypto_digest_extend", SwDigestFn}) :
                  vd.calls[i].size = vd.sig.data_size
            /\ IF VdCalled({"vb2_verify_digest"}) = {}
               THEN /\ vd.calls[Len(vd.calls)].reply # VB2_SUCCESS
                    /\ vd.rv = vd.calls[Len(vd.calls)].reply
               ELSE \A i \in VdCalled({"vb2_verify_digest"}) :
                       /\ vd.rv = vd.calls[i].reply
                       /\ \A j \in 1..(i - 1) :
                             /\ vd.calls[j].fn \in HwDigestFns \cup {SwDigestFn}
                             /\ j = i - 1 => vd.calls[j].reply = VB2_SUCCESS
                       /\ \A j \in (i + 1)..Len(vd.calls) :
                             vd.calls[j].fn \in {HwRsaFn, SwRsaFn}

\* One byte signed of two supplied: one byte hashed, then the signature
\* verified.
C23_Witness ==
    /\ vd.pc = "returned"
    /\ vd.fn = "vb2_verify_data"
    /\ vd.sig.data_size = 1
    /\ vd.size = 2
    /\ Len(vd.calls) = 3
    /\ vd.calls[1].fn = SwDigestFn
    /\ vd.calls[1].size = 1
    /\ vd.calls[2].fn = "vb2_verify_digest"
    /\ vd.calls[3].fn = SwRsaFn
    /\ vd.rv = VB2_SUCCESS

(***************************************************************************)
(* futility/cmd_gscvd.c, verify_ranges with in_range, range_fits and       *)
(* range_overlaps.  Offsets and sizes of ranges and FMAP areas are         *)
(* uint32_t, here RangeBits wide, and their sums wrap; the size parameter  *)
(* of range_overlaps is a size_t, which is wider than uint32_t in some     *)
(* builds (wide) and as wide in others.                                    *)
(***************************************************************************)
RangeBits == 4

RangeMod == 2 ^ RangeBits

ToRange32(v) == v % RangeMod

ToSizeT(v, wide) == IF wide THEN v ELSE v % RangeMod

\* The ranges a call is given.
MaxRanges == 2

in_range(offset, ah) ==
    /\ offset >= ah.area_offset
    /\ offset <= ToRange32(ah.area_offset + ah.area_size)

range_fits(range, ah) ==
    /\ in_range(range.offset, ah)
    /\ in_range(ToRange32(range.offset + range.size), ah)

range_overlaps(range, offset, size, wide) ==
    IF \/ ToRange32(range.offset + range.size) <= offset
       \/ ToSizeT(offset + size, wide) <= range.offset
    THEN FALSE
    ELSE TRUE

\* The value returned: 1 without a WP_RO area, else -1 if errorcount, the
\* number of checks that failed, is not 0.
verify_ranges(ranges, file) ==
    LET count == Len(ranges)
        unfit == {i \in 1..count : ~range_fits(ranges[i], file.wp_ro)}
        over_gscvd == {i \in 1..count :
                          range_overlaps(ranges[i], file.ro_gscvd.area_offset,
                                         file.ro_gscvd.area_size, file.wide)}
        over_other == {p \in (1..count) \X (1..count) :
                          /\ p[1] < p[2]
                          /\ range_overlaps(ranges[p[1]], ranges[p[2]].offset,
                                            ranges[p[2]].size, file.wide)}
        errorcount == Cardinality(unfit) + Cardinality(over_gscvd)
                         + Cardinality(over_other)
    IN  IF ~file.has_wp_ro THEN 1
        ELSE IF errorcount # 0 THEN -1 ELSE 0

RangeOffsets == {0, 2, 4, 7, RangeMod - 1}

RangeSizes == {0, 1, 2, 3, RangeMod - 2, RangeMod - 1}

GscvdRanges == [offset : RangeOffsets, size : RangeSizes]

WpRoAreas == {[area_offset |-> 0, area_size |-> RangeMod - 2],
              [area_offset |-> 2, area_size |-> 8]}

RoGscvdAreas == {[area_offset |-> 4, area_size |-> 2],
                 [area_offset |-> 6, area_size |-> 1]}

InitGscvd ==
    /\ EcQuiet
    /\ inside = NotCalled
    /\ cmp = NotCalled
    /\ al = NotCalled
    /\ wb = NotCalled
    /\ vd = NotCalled
    /\ ui = NotCalled
    /\ \E n \in 0..MaxRanges :
          gscvd \in [pc : {"called"}, ranges : [1..n -> GscvdRanges],
                     file : [has_wp_ro : BOOLEAN, wp_ro : WpRoAreas,
                             ro_gscvd : RoGscvdAreas, wide : BOOLEAN],
                     rv : {Running}]

call_verify_ranges ==
    /\ gscvd.pc = "called"
    /\ gscvd' = [gscvd EXCEPT !.pc = "returned",
                              !.rv = verify_ranges(gscvd.ranges, gscvd.file)]
    /\ UNCHANGED other_than_gscvd

NextGscvd == call_verify_ranges

SpecGscvd == InitGscvd /\ [][NextGscvd]_vars

\* The bytes offset .. offset + size - 1 lie in the area.
RangeInside(range, ah) ==
    /\ range.offset >= ah.area_offset
    /\ range.offset + range.size <= ah.area_offset + ah.area_size

\* The two stretches of bytes are not one entirely before the other.
RangesMeet(range, offset, size) ==
    ~(range.offset + range.size <= offset \/ offset + size <= range.offset)

(***************************************************************************)
(* C29: verify_ranges returns 0 only if, for all 32-bit range offsets and  *)
(* sizes (the code computing its sums modulo 2^32), every range lies       *)
(* entirely within the WP_RO FMAP area, no range overlaps the RO_GSCVD     *)
(* FMAP area, and no two ranges overlap each other.                        *)
(***************************************************************************)
C29_RangesValid ==
    (gscvd.pc = "returned" /\ gscvd.rv = 0) =>
       /\ \A i \in DOMAIN gscvd.ranges :
             /\ RangeInside(gscvd.ranges[i], gscvd.file.wp_ro)
             /\ ~RangesMeet(gscvd.ranges[i], gscvd.file.ro_gscvd.area_offset,
                            gscvd.file.ro_gscvd.area_size)
       /\ \A i, j \in DOMAIN gscvd.ranges :
             i # j => ~RangesMeet(gscvd.ranges[i], gscvd.ranges[j].offset,
                                  gscvd.ranges[j].size)

(***************************************************************************)
(* The manual recovery menu, vb2_manual_recovery_menu of 2ui.h.  The menu  *)
(* is a loop that draws the screen when it changed, reads a key, returns   *)
(* on a shutdown request, acts on the key and then tries to load a kernel  *)
(* from a removable disk.  u is the UI context with the screens drawn so   *)
(* far; shutdown, key and tlk are what VbExIsShutdownRequested,            *)
(* VbExKeyboardReadWithFlags and VbTryLoadKernel give in one iteration.    *)
(***************************************************************************)
VB2_SCREEN_BLANK == "VB2_SCREEN_BLANK"
VB2_SCREEN_RECOVERY_SELECT == "VB2_SCREEN_RECOVERY_SELECT"
VB2_SCREEN_RECOVERY_INVALID == "VB2_SCREEN_RECOVERY_INVALID"
VB2_SCREEN_RECOVERY_PHONE_STEP1 == "VB2_SCREEN_RECOVERY_PHONE_STEP1"
VB2_SCREEN_RECOVERY_DISK_STEP1 == "VB2_SCREEN_RECOVERY_DISK_STEP1"

VB2_REQUEST_SHUTDOWN == "VB2_REQUEST_SHUTDOWN"
VB2_REQUEST_UI_CONTINUE == "VB2_REQUEST_UI_CONTINUE"
VB2_ERROR_LK_NO_DISK_FOUND == "VB2_ERROR_LK_NO_DISK_FOUND"
VB2_ERROR_MOCK == "VB2_ERROR_MOCK"

VB_KEY_NONE == "0"
VB_KEY_ENTER == "VB_KEY_ENTER"
VB_KEY_DOWN == "VB_KEY_DOWN"
VB_BUTTON_POWER_SHORT_PRESS == "VB_BUTTON_POWER_SHORT_PRESS"

UiKeys == {VB_KEY_NONE, VB_KEY_ENTER, VB_KEY_DOWN, VB_BUTTON_POWER_SHORT_PRESS}

VbtlkReplies == {VB2_SUCCESS, VB2_ERROR_LK_NO_DISK_FOUND, VB2_ERROR_MOCK}

\* The iterations of the loop followed.
MaxIter == 4

\* The disk validity before the first try.
INVALID_DISK_UNKNOWN == -1

\* The state of a screen just changed to: its first item selected.
vb2_ui_change_screen(u, id) == [u EXCEPT !.screen = id, !.selected_item = 0]

\* The selection does not wrap: it blocks on the last item.  The recovery
\* selection has the items phone recovery and external disk recovery.
vb2_ui_menu_next(u) ==
    IF u.screen = VB2_SCREEN_RECOVERY_SELECT /\ u.selected_item < 1
    THEN [u EXCEPT !.selected_item = u.selected_item + 1]
    ELSE u

vb2_ui_menu_select(u) ==
    IF u.screen = VB2_SCREEN_RECOVERY_SELECT
    THEN vb2_ui_change_screen(u, IF u.selected_item = 0
                                 THEN VB2_SCREEN_RECOVERY_PHONE_STEP1
                                 ELSE VB2_SCREEN_RECOVERY_DISK_STEP1)
    ELSE u

ui_input_action(u, key) ==
    IF key = VB_KEY_DOWN THEN vb2_ui_menu_next(u)
    ELSE IF key = VB_KEY_ENTER THEN vb2_ui_menu_select(u)
    ELSE u

shutdown_required(shutdown, key) ==
    shutdown \/ key = VB_BUTTON_POWER_SHORT_PRESS

\* The screen is drawn when the state differs from the state last drawn.
ui_draw(u) ==
    LET state == [screen |-> u.screen, selected_item |-> u.selected_item]
    IN  IF u.prev # state
        THEN [u EXCEPT !.prev = state, !.displayed = Append(u.displayed, state)]
        ELSE u

\* The value is the UI context after the try with the value returned.
try_recovery_action_ignoring_removal(u, tlk) ==
    IF tlk = VB2_SUCCESS THEN [u |-> u, rv |-> VB2_SUCCESS]
    ELSE IF tlk # VB2_ERROR_LK_NO_DISK_FOUND /\ u.invalid_disk_last # 1
    THEN [u |-> vb2_ui_change_screen([u EXCEPT !.invalid_disk_last = 1],
                                     VB2_SCREEN_RECOVERY_INVALID),
          rv |-> VB2_REQUEST_UI_CONTINUE]
    ELSE [u |-> u, rv |-> VB2_REQUEST_UI_CONTINUE]

try_recovery_action(u, tlk) ==
    LET invalid_disk == IF tlk # VB2_ERROR_LK_NO_DISK_FOUND THEN 1 ELSE 0
    IN  IF tlk = VB2_SUCCESS THEN [u |-> u, rv |-> VB2_SUCCESS]
        ELSE IF u.invalid_disk_last # invalid_disk
        THEN [u |-> vb2_ui_change_screen(
                       [u EXCEPT !.invalid_disk_last = invalid_disk],
                       IF invalid_disk = 1 THEN VB2_SCREEN_RECOVERY_INVALID
                       ELSE VB2_SCREEN_RECOVERY_SELECT),
              rv |-> VB2_REQUEST_UI_CONTINUE]
        ELSE [u |-> u, rv |-> VB2_REQUEST_UI_CONTINUE]

NoScreen == [screen |-> VB2_SCREEN_BLANK, selected_item |-> 0]

\* What one iteration was given and did: the screen when it began, after
\* the key and when it ended, and whether it tried to load a kernel.
NoIteration ==
    [shutdown |-> FALSE, key |-> VB_KEY_NONE, tlk |-> VB2_SUCCESS, polled |-> FALSE,
     before |-> VB2_SCREEN_BLANK, after_key |-> VB2_SCREEN_BLANK,
     after |-> VB2_SCREEN_BLANK, invalid_disk_before |-> INVALID_DISK_UNKNOWN]

InitUi ==
    /\ EcQuiet
    /\ inside = NotCalled
    /\ cmp = NotCalled
    /\ al = NotCalled
    /\ wb = NotCalled
    /\ vd = NotCalled
    /\ gscvd = NotCalled
    /\ ui = [pc |-> "called", screen |-> VB2_SCREEN_BLANK, selected_item |-> 0,
             prev |-> NoScreen, displayed |-> << >>,
             invalid_disk_last |-> INVALID_DISK_UNKNOWN,
             rv |-> Running, iter |-> 0, last |-> NoIteration]

\* vb2_manual_recovery_menu enters the loop on the recovery selection.
enter_manual_recovery_menu ==
    /\ ui.pc = "called"
    /\ ui' = [vb2_ui_change_screen(ui, VB2_SCREEN_RECOVERY_SELECT)
                 EXCEPT !.pc = "loop"]
    /\ UNCHANGED other_than_ui

ui_loop_iteration(shutdown, key, tlk) ==
    /\ ui.pc = "loop"
    /\ ui.iter < MaxIter
    /\ LET drawn == ui_draw(ui)
           keyed == ui_input_action(drawn, key)
           tried == try_recovery_action(keyed, tlk)
           it == [shutdown |-> shutdown, key |-> key, tlk |-> tlk,
                  polled |-> FALSE, before |-> ui.screen,
                  after_key |-> ui.screen, after |-> ui.screen,
                  invalid_disk_before |-> ui.invalid_disk_last]
       IN  IF shutdown_required(shutdown, key)
           THEN ui' = [drawn EXCEPT !.pc = "returned",
                                    !.rv = VB2_REQUEST_SHUTDOWN,
                                    !.iter = ui.iter + 1, !.last = it]
           ELSE ui' = [tried.u EXCEPT
                          !.pc = IF tried.rv # VB2_REQUEST_UI_CONTINUE
                                 THEN "returned" ELSE "loop",
                          !.rv = IF tried.rv # VB2_REQUEST_UI_CONTINUE
                                 THEN tried.rv ELSE Running,
                          !.iter = ui.iter + 1,
                          !.last = [it EXCEPT !.polled = TRUE,
                                              !.after_key = keyed.screen,
                                              !.after = tried.u.screen]]
    /\ UNCHANGED other_than_ui

NextUi ==
    \/ enter_manual_recovery_menu
    \/ \E shutdown \in BOOLEAN, key \in UiKeys, tlk \in VbtlkReplies :
          ui_loop_iteration(shutdown, key, tlk)

SpecUi == InitUi /\ [][NextUi]_vars

DisplayedScreens == [i \in DOMAIN ui.displayed |-> ui.displayed[i].screen]

\* What the menu does apart from staying on a screen without a disk: it
\* starts on the recovery selection, tries to load a kernel in every
\* iteration that finds no shutdown request, returns success when the load
\* succeeds, shows the invalid-disk screen for an invalid disk and the
\* selection again once that disk is removed, and returns
\* VB2_REQUEST_SHUTDOWN on a shutdown request.
ManualRecoveryOtherwise ==
    /\ ui.pc = "loop" /\ ui.iter = 0 => ui.screen = VB2_SCREEN_RECOVERY_SELECT
    /\ ui.displayed # << >> => ui.displayed[1].screen = VB2_SCREEN_RECOVERY_SELECT
    /\ ui.iter > 0 =>
          /\ ui.last.polled <=> ~(ui.last.shutdown
                                  \/ ui.last.key = VB_BUTTON_POWER_SHORT_PRESS)
          /\ ~ui.last.polled <=> (ui.pc = "returned" /\ ui.rv = VB2_REQUEST_SHUTDOWN)
          /\ (ui.last.polled /\ ui.last.tlk = VB2_SUCCESS)
                <=> (ui.pc = "returned" /\ ui.rv = VB2_SUCCESS)
          /\ ui.pc = "returned" => ui.rv \in {VB2_SUCCESS, VB2_REQUEST_SHUTDOWN}
          /\ (ui.last.polled /\ ui.last.tlk = VB2_ERROR_MOCK) =>
                /\ ui.last.after = VB2_SCREEN_RECOVERY_INVALID
                /\ ui.screen = VB2_SCREEN_RECOVERY_INVALID
          /\ (/\ ui.last.polled
              /\ ui.last.tlk = VB2_ERROR_LK_NO_DISK_FOUND
              /\ ui.last.invalid_disk_before = 1) =>
                ui.last.after = VB2_SCREEN_RECOVERY_SELECT

\* The last iteration found no disk and no disk had been there before it.
StillNoDisk ==
    /\ ui.iter > 0
    /\ ui.last.polled
    /\ ui.last.tlk = VB2_ERROR_LK_NO_DISK_FOUND
    /\ ui.last.invalid_disk_before # 1

(***************************************************************************)
(* C30 as stated: vb2_manual_recovery_menu starts on the RECOVERY_SELECT   *)
(* screen and keeps polling removable media: it returns success as soon as *)
(* a kernel load from a removable disk succeeds; while no disk is found it *)
(* stays on the current screen; when a disk with an invalid image is found *)
(* it shows RECOVERY_INVALID and returns to RECOVERY_SELECT once the disk  *)
(* is removed; and a shutdown request ends the loop with                   *)
(* VB2_REQUEST_SHUTDOWN.                                                   *)
(***************************************************************************)
C30_Original ==
    /\ ManualRecoveryOtherwise
    /\ StillNoDisk => ui.last.after = ui.last.after_key

(***************************************************************************)
(* C30: as C30_Original, except that the first try to load a kernel, when  *)
(* it finds no disk, sets the screen to RECOVERY_SELECT whatever the key   *)
(* of that iteration selected; from then on the menu stays on the current  *)
(* screen while no disk is found.                                          *)
(***************************************************************************)
C30_ManualRecovery ==
    /\ ManualRecoveryOtherwise
    /\ StillNoDisk =>
          ui.last.after = IF ui.last.invalid_disk_before = INVALID_DISK_UNKNOWN
                          THEN VB2_SCREEN_RECOVERY_SELECT
                          ELSE ui.last.after_key

\* An invalid disk, its removal and then a valid one: the screens drawn are
\* the selection, the invalid-disk screen and the selection again.
C30_Witness ==
    /\ ui.pc = "returned"
    /\ ui.rv = VB2_SUCCESS
    /\ DisplayedScreens = <<VB2_SCREEN_RECOVERY_SELECT, VB2_SCREEN_RECOVERY_INVALID,
                            VB2_SCREEN_RECOVERY_SELECT>>
    /\ ui.last.before = VB2_SCREEN_RECOVERY_SELECT

====
